---- MODULE Spec2Model ----
(***************************************************************************)
(* tuicr: the embedded IDE tool-invocation server and its bridge to the    *)
(* single-threaded host loop.                                              *)
(*                                                                         *)
(*   network side  : accept loop, one reader task and one writer task per  *)
(*                   connection, the client registry behind a tokio RwLock *)
(*                   (src/ide/server.rs), method and tool dispatch          *)
(*                   (src/ide/handlers.rs, src/ide/tools/*.rs)              *)
(*   shared store  : IdeState behind a tokio RwLock (src/ide/state.rs)      *)
(*   bridge        : tokio mpsc -> forwarder -> std mpsc (src/main.rs)      *)
(*   host loop     : render, drain commands, poll input (src/main.rs)       *)
(*   discovery file: LockFile (src/ide/lockfile.rs)                         *)
(***************************************************************************)
EXTENDS Integers, Sequences, FiniteSets, TLC

(***************************************************************************)
(* Bounds of the model.                                                    *)
(***************************************************************************)
\* connection slots: each slot is one TCP connection accepted by the server
MaxConns == 2
\* frames the server receives in all, over all connections
MaxFrames == 2
\* capacity of a per-connection outbound queue (mpsc::channel(32) in the
\* code, server.rs:183), scaled down so that a full queue is reached
ChannelCap == 1

Conns == 1..MaxConns

(***************************************************************************)
(* Option values and JSON-RPC ids (protocol.rs:72-75).                     *)
(***************************************************************************)
None == [t |-> "None"]
Some(x) == [t |-> "Some", v |-> x]

NumberId(n) == [t |-> "Number", n |-> n]
StringId(s) == [t |-> "String", s |-> s]

VARIABLES
    \* ---- network side (server.rs) ----
    connPc,       \* position of each connection's handle_connection task
    client_id,    \* handle_connection's local client_id (0: not registered)
    out,          \* the outbound message the reader is about to enqueue
    call,         \* the tools/call the reader is executing
    recvCount,    \* frames received so far on each connection
    clients,      \* ServerState.clients: sequence of [id, tx]
    next_id,      \* ServerState.next_id
    regReaders,   \* tasks holding a read guard of the registry RwLock
    regWaiters,   \* FIFO of tasks waiting for the registry RwLock
    chan,         \* per-connection outbound queue (client_tx / client_rx)
    chanOpen,     \* whether client_rx (the writer task's end) is still alive
    socket,       \* messages the writer task has written to the WebSocket
    produced,     \* history: messages produced for each connection, in frame order
    lastFrame,    \* history: the frame each reader received last
    \* ---- shared store (state.rs) ----
    ide_state,    \* the IdeState snapshot
    stateReaders, \* tasks holding a read guard of the store's RwLock
    stateWriter,  \* TRUE while the host loop holds the write guard
    committed,    \* history: the snapshot as the last completed sync left it
    \* ---- command bridge (main.rs) ----
    async_cmd,    \* tokio mpsc channel(32): tool handlers -> forwarder
    cmd_chan,     \* std mpsc channel: forwarder -> host loop
    fwdPc,        \* the forwarder loop of the IDE thread
    cmdLog,       \* history: commands in the order open_file enqueued them
    handled,      \* history: commands in the order handle_ide_command ran
    \* ---- host loop (main.rs) ----
    hostPc,       \* position of the main thread
    app,          \* the host model (App)
    syncRet,      \* where the host continues after a sync
    drained,      \* commands taken in the current frame's drain loop
    cleanFrames,  \* history: frames in a row that ended with the store free and the
                  \* snapshot behind the host model, with no sync attempt and no
                  \* handler at the store in between (capped at 2)
    \* ---- process and discovery file (lockfile.rs, server.rs) ----
    srvPc,        \* IdeServer::start progress on the IDE thread
    lockFile,     \* whether <home>/.claude/ide/<port>.lock exists
    lockOps,      \* history: the calls of LockFile::remove and the drop of the record
    codec,        \* an envelope on its way through serde_json: made, encoded, decoded
    start,        \* IdeServer::start step by step: listener, port, file written, result
    acceptErrs,   \* history: errors of listener.accept() logged by accept_loop
    procAlive     \* FALSE once the process has terminated

connVars == <<connPc, client_id, out, call, recvCount, clients, next_id,
              regReaders, regWaiters, chan, chanOpen, socket, produced,
              lastFrame>>
storeVars == <<ide_state, stateReaders, stateWriter, committed>>
bridgeVars == <<async_cmd, cmd_chan, fwdPc, cmdLog, handled>>
hostCore == <<hostPc, app, syncRet, drained>>
hostVars == <<hostCore, cleanFrames>>
lifeVars == <<srvPc, lockFile, lockOps, codec, start, acceptErrs, procAlive>>
vars == <<connVars, storeVars, bridgeVars, hostVars, lifeVars>>

(***************************************************************************)
(* Sequence helpers.                                                       *)
(***************************************************************************)
IsPrefix(s, t) == Len(s) <= Len(t) /\ SubSeq(t, 1, Len(s)) = s

\* index of the first element satisfying Test, 0 when there is none
\* (Iterator::position / Iterator::find)
FirstIndex(s, Test(_)) ==
    IF \E i \in 1..Len(s) : Test(s[i])
    THEN CHOOSE i \in 1..Len(s) : Test(s[i]) /\ \A j \in 1..(i - 1) : ~Test(s[j])
    ELSE 0

(***************************************************************************)
(* JSON-RPC envelopes (protocol.rs).                                       *)
(***************************************************************************)
PARSE_ERROR == -32700
INVALID_REQUEST == -32600
METHOD_NOT_FOUND == -32601
INVALID_PARAMS == -32602

JsonRpcError(code, message) == [code |-> code, message |-> message, data |-> None]

\* JsonRpcResponse::success / JsonRpcResponse::error
ResponseSuccess(id, result) ==
    [jsonrpc |-> "2.0", id |-> id, result |-> Some(result), error |-> None]
\* ResponseError with a defect: an error response also carries a result
ResponseErrorWithResult(id, err) ==
    [jsonrpc |-> "2.0", id |-> id, result |-> Some([json |-> "object"]), error |-> Some(err)]
ResponseError(id, err) ==
    [jsonrpc |-> "2.0", id |-> id, result |-> None, error |-> Some(err)]

\* serde_json::json!({})
EmptyObject == [json |-> "object"]

\* a well-formed request envelope, and a text that is no JSON-RPC request
Request(jsonrpc, id, method, params) ==
    [wf |-> TRUE, jsonrpc |-> jsonrpc, id |-> id, method |-> method, params |-> params]
Malformed == [wf |-> FALSE]

\* params values: absent, a JSON value of no useful shape, a valid
\* InitializeParams object, a valid ToolsCallParams object
NoParams == [p |-> "absent"]
JunkParams == [p |-> "junk"]
InitParams == [p |-> "initialize"]
CallParams(name, arguments) == [p |-> "call", name |-> name, arguments |-> arguments]

(***************************************************************************)
(* The envelopes as serde encodes and decodes them (protocol.rs:6-84).     *)
(* An optional field is None or Some(v); a field of the encoded object is  *)
(* a JSON value or Missing.                                                *)
(***************************************************************************)
JNull == [json |-> "null"]
Missing == [json |-> "missing"]
JNumber(n) == [json |-> "number", n |-> n]
JString(s) == [json |-> "string", s |-> s]

\* Option<T> without skip_serializing_if: None is written as null
encode_option(o) == IF o.t = "None" THEN JNull ELSE o.v
\* #[serde(skip_serializing_if = "Option::is_none")]: None is left out
encode_skipped(o) == IF o.t = "None" THEN Missing ELSE o.v
\* Option<T> read back: a missing field and null both give None
decode_option(w) == IF w = Missing \/ w = JNull THEN None ELSE Some(w)

\* JsonRpcId, #[serde(untagged)]: a number or a string
encode_id(o) ==
    IF o.t = "None" THEN None
    ELSE Some(IF o.v.t = "Number" THEN JNumber(o.v.n) ELSE JString(o.v.s))
decode_id(w) ==
    IF w = Missing \/ w = JNull THEN None
    ELSE Some(IF w.json = "number" THEN NumberId(w.n) ELSE StringId(w.s))

\* JsonRpcError: code, message, optional data
encode_error(o) ==
    IF o.t = "None" THEN None
    ELSE Some([json |-> "error", code |-> o.v.code, message |-> o.v.message,
               data |-> encode_skipped(o.v.data)])
decode_error(w) ==
    IF w = Missing \/ w = JNull THEN None
    ELSE Some([code |-> w.code, message |-> w.message, data |-> decode_option(w.data)])

\* serde_json::to_string of JsonRpcRequest, JsonRpcResponse, JsonRpcNotification
encode(env) ==
    CASE env.kind = "request" ->
           [kind |-> "request", jsonrpc |-> env.jsonrpc,
            id |-> encode_option(encode_id(env.id)),
            method |-> env.method, params |-> encode_option(env.params)]
      [] env.kind = "response" ->
           [kind |-> "response", jsonrpc |-> env.jsonrpc,
            id |-> encode_skipped(encode_id(env.id)),
            result |-> encode_skipped(env.result),
            error |-> encode_skipped(encode_error(env.error))]
      [] env.kind = "notification" ->
           [kind |-> "notification", jsonrpc |-> env.jsonrpc,
            method |-> env.method, params |-> encode_skipped(env.params)]

\* serde_json::from_str into the type the text was written from
decode(w) ==
    CASE w.kind = "request" ->
           [kind |-> "request", jsonrpc |-> w.jsonrpc, id |-> decode_id(w.id),
            method |-> w.method, params |-> decode_option(w.params)]
      [] w.kind = "response" ->
           [kind |-> "response", jsonrpc |-> w.jsonrpc, id |-> decode_id(w.id),
            result |-> decode_option(w.result), error |-> decode_error(w.error)]
      [] w.kind = "notification" ->
           [kind |-> "notification", jsonrpc |-> w.jsonrpc,
            method |-> w.method, params |-> decode_option(w.params)]

\* no envelope is being encoded
NoCodec == [stage |-> "none"]

\* IdeServer::new: port 0, no listener, no discovery file, start not called
NoStart ==
    [pc |-> "new", port |-> 0, listening |-> FALSE, file |-> None, accepting |-> FALSE,
     ret |-> None]

\* serde_json::to_string(&env)
Encode ==
    /\ codec.stage = "made"
    /\ codec' = [codec EXCEPT !.stage = "encoded", !.wire = encode(codec.env)]
    /\ UNCHANGED <<srvPc, lockFile, lockOps, start, acceptErrs, procAlive>>
    /\ UNCHANGED <<connVars, storeVars, bridgeVars, hostVars>>

\* serde_json::from_str(&text)
Decode ==
    /\ codec.stage = "encoded"
    /\ codec' = [codec EXCEPT !.stage = "decoded", !.back = decode(codec.wire)]
    /\ UNCHANGED <<srvPc, lockFile, lockOps, start, acceptErrs, procAlive>>
    /\ UNCHANGED <<connVars, storeVars, bridgeVars, hostVars>>

\* all_tools with a defect: the listing leaves openFile out
all_tools_without_open_file ==
    << [name |-> "getCurrentSelection",
        description |-> Some("Get the currently selected text in the diff viewer. Returns the file path, selected text, and line range of the selection."),
        type |-> "object", required |-> {}],
       [name |-> "getOpenEditors",
        description |-> Some("Get the list of files open in the current code review session. Each file includes its path, status (added/modified/deleted), and review state."),
        type |-> "object", required |-> {}],
       [name |-> "getWorkspaceFolders",
        description |-> Some("Get the workspace folders (repository roots) for the current review session."),
        type |-> "object", required |-> {}],
       [name |-> "getDiagnostics",
        description |-> Some("Get review comments as diagnostics. Issue-type comments are returned as errors, Suggestion-type as warnings, and Note/Praise as information."),
        type |-> "object", required |-> {}] >>

\* tools::all_tools(): for each tool its name, its description, and of its
\* input schema the "type" and the "required" list
all_tools ==
    << [name |-> "getCurrentSelection",
        description |-> Some("Get the currently selected text in the diff viewer. Returns the file path, selected text, and line range of the selection."),
        type |-> "object", required |-> {}],
       [name |-> "getOpenEditors",
        description |-> Some("Get the list of files open in the current code review session. Each file includes its path, status (added/modified/deleted), and review state."),
        type |-> "object", required |-> {}],
       [name |-> "getWorkspaceFolders",
        description |-> Some("Get the workspace folders (repository roots) for the current review session."),
        type |-> "object", required |-> {}],
       [name |-> "getDiagnostics",
        description |-> Some("Get review comments as diagnostics. Issue-type comments are returned as errors, Suggestion-type as warnings, and Note/Praise as information."),
        type |-> "object", required |-> {}],
       [name |-> "openFile",
        description |-> Some("Navigate to a specific file in the diff viewer. Optionally jump to a specific line."),
        type |-> "object", required |-> {"filePath"}] >>

handle_initialize(params, id) ==
    IF params.p = "absent"
    THEN ResponseError(id, JsonRpcError(INVALID_PARAMS, "Missing initialize params"))
    ELSE IF params.p # "initialize"
    THEN ResponseError(id, JsonRpcError(INVALID_PARAMS, "Failed to parse initialize params"))
    ELSE ResponseSuccess(id, [json |-> "InitializeResult",
                              protocolVersion |-> "2024-11-05",
                              capabilities |-> {"tools"},
                              serverInfo |-> "tuicr"])

handle_ping(id) == ResponseSuccess(id, EmptyObject)

handle_tools_list(id) ==
    ResponseSuccess(id, [json |-> "ToolsListResult", tools |-> all_tools])

\* tools_call_params_error with a defect: bad params are reported as a
\* failed tool inside a success response
tools_call_params_as_tool_error(params, id) ==
    IF params.p # "call"
    THEN Some(ResponseSuccess(id, [json |-> "ToolsCallResult",
                                   content |-> << [error |-> "Invalid params"] >>,
                                   isError |-> TRUE]))
    ELSE None

\* handle_tools_call up to the point where dispatch_tool is entered:
\* the invalid-params responses, or None when the call goes on to the tool
tools_call_params_error(params, id) ==
    IF params.p = "absent"
    THEN Some(ResponseError(id, JsonRpcError(INVALID_PARAMS, "Missing tools/call params")))
    ELSE IF params.p # "call"
    THEN Some(ResponseError(id, JsonRpcError(INVALID_PARAMS, "Failed to parse tools/call params")))
    ELSE None

\* handle_message for everything that completes without suspending:
\* Some(response), or None when no response is produced.  A tools/call with
\* well-formed params is not covered here: it continues in dispatch_tool.
EntersTool(text) ==
    /\ text.wf
    /\ text.jsonrpc = "2.0"
    /\ text.method = "tools/call"
    /\ text.params.p = "call"

\* method_not_found with a defect: the request's id is not echoed
method_not_found_drops_id(method, id) ==
    ResponseError(None, JsonRpcError(METHOD_NOT_FOUND, <<"Method not found: ", method>>))

\* the `_` arm of handle_method (handlers.rs:37-40)
method_not_found(method, id) ==
    ResponseError(id, JsonRpcError(METHOD_NOT_FOUND, <<"Method not found: ", method>>))

\* handle_method with a defect: the two notification methods are answered
handle_method_acks_all(method, params, id) ==
    CASE method = "initialize" -> Some(handle_initialize(params, id))
      [] method = "initialized" -> Some(ResponseSuccess(id, EmptyObject))
      [] method = "ping" -> Some(handle_ping(id))
      [] method = "tools/list" -> Some(handle_tools_list(id))
      [] method = "tools/call" -> tools_call_params_error(params, id)
      [] method = "notifications/cancelled" -> Some(ResponseSuccess(id, EmptyObject))
      [] OTHER -> Some(method_not_found(method, id))

\* handle_method with a defect: tools/list is refused until some initialize
\* has been answered
handle_method_after_initialize(method, params, id) ==
    CASE method = "initialize" -> Some(handle_initialize(params, id))
      [] method = "initialized" -> None
      [] method = "ping" -> Some(handle_ping(id))
      [] method = "tools/list" ->
            IF \E c \in DOMAIN produced : \E i \in 1..Len(produced[c]) :
                  /\ produced[c][i].type = "Text"
                  /\ produced[c][i].body.result.t = "Some"
                  /\ produced[c][i].body.result.v.json = "InitializeResult"
            THEN Some(handle_tools_list(id))
            ELSE Some(ResponseError(id, JsonRpcError(INVALID_REQUEST, "Invalid request")))
      [] method = "tools/call" -> tools_call_params_error(params, id)
      [] method = "notifications/cancelled" -> None
      [] OTHER -> Some(method_not_found(method, id))

\* handlers::handle_method, except for a tools/call that enters dispatch_tool
handle_method(method, params, id) ==
    CASE method = "initialize" -> Some(handle_initialize(params, id))
      [] method = "initialized" -> None
      [] method = "ping" -> Some(handle_ping(id))
      [] method = "tools/list" -> Some(handle_tools_list(id))
      [] method = "tools/call" -> tools_call_params_error(params, id)
      [] method = "notifications/cancelled" -> None
      [] OTHER -> Some(method_not_found(method, id))

\* handle_message with a defect: the protocol tag is not looked at
handle_message_any_version(text) ==
    IF ~text.wf
    THEN Some(ResponseError(None, JsonRpcError(PARSE_ERROR, "Parse error")))
    ELSE handle_method(text.method, text.params, text.id)

\* server::handle_message (server.rs:240-269)
handle_message(text) ==
    IF ~text.wf
    THEN Some(ResponseError(None, JsonRpcError(PARSE_ERROR, "Parse error")))
    ELSE IF text.jsonrpc # "2.0"
    THEN Some(ResponseError(text.id, JsonRpcError(INVALID_REQUEST, "Invalid request")))
    ELSE handle_method(text.method, text.params, text.id)

(***************************************************************************)
(* The client registry (server.rs:27-57).                                  *)
(***************************************************************************)
\* add_client with a defect: the counter is not advanced
add_client_same_id(cl, nid, tx) ==
    [clients |-> Append(cl, [id |-> nid, tx |-> tx]), next_id |-> nid, id |-> nid]

\* add_client with a defect: the id is taken from the length of the list
add_client_by_position(cl, nid, tx) ==
    [clients |-> Append(cl, [id |-> Len(cl) + 1, tx |-> tx]), next_id |-> nid + 1,
     id |-> Len(cl) + 1]

\* ServerState::add_client: the new client list, the new counter, the id
add_client(cl, nid, tx) ==
    [clients |-> Append(cl, [id |-> nid, tx |-> tx]), next_id |-> nid + 1, id |-> nid]

\* remove_client with a defect: the retain test is inverted
remove_client_inverted(cl, id) == SelectSeq(cl, LAMBDA c : c.id = id)

\* ServerState::remove_client
remove_client(cl, id) == SelectSeq(cl, LAMBDA c : c.id # id)

\* state.clients.iter().find(|c| c.id == client_id): index, or 0
find_client(cl, id) == FirstIndex(cl, LAMBDA c : c.id = id)

(***************************************************************************)
(* The registry RwLock (tokio::sync::RwLock, fair: waiters are served in   *)
(* FIFO order, so a waiting writer holds back the readers behind it).      *)
(* The write guards of handle_connection are taken and released without a *)
(* suspension point in between, so a write is one step once granted.      *)
(***************************************************************************)
RegWait(c, mode) == Append(regWaiters, [task |-> c, mode |-> mode])

\* server_state.read().await is granted
RegReadGranted(c) ==
    /\ regWaiters # <<>>
    /\ Head(regWaiters) = [task |-> c, mode |-> "read"]

\* server_state.write().await is granted
RegWriteGranted(c) ==
    /\ regWaiters # <<>>
    /\ Head(regWaiters) = [task |-> c, mode |-> "write"]
    /\ regReaders = {}


(***************************************************************************)
(* WebSocket messages on the outbound path.  origin and seq are history    *)
(* fields: the connection whose frame caused the message and that frame's  *)
(* number on its connection.                                               *)
(***************************************************************************)
NoMsg == [type |-> "none"]
TextMsg(body, c, k) == [type |-> "Text", body |-> body, origin |-> c, seq |-> k]
\* PongMsg with a defect: the pong carries an empty payload
PongMsgEmpty(data, c, k) == [type |-> "Pong", data |-> 0, origin |-> c, seq |-> k]
PongMsg(data, c, k) == [type |-> "Pong", data |-> data, origin |-> c, seq |-> k]

NoCall == [active |-> FALSE]

\* history values for lastFrame
NoFrame == [kind |-> "none"]
OtherFrame(kind) == [kind |-> kind]
PingFrame(data) == [kind |-> "ping", data |-> data]
TextFrame(text, peerClosed) == [kind |-> "text", text |-> text, peerClosed |-> peerClosed]

\* some other connection was registered and has been removed again
PeerClosed(c) == \E a \in Conns \ {c} : connPc[a] = "done" /\ client_id[a] # 0

\* the peers have frames left to send
RECURSIVE SumTo(_, _)
SumTo(f, n) == IF n = 0 THEN 0 ELSE f[n] + SumTo(f, n - 1)
FramesLeft == SumTo(recvCount, MaxConns) < MaxFrames

\* the tokio runtime of the IDE thread is running its tasks
RuntimeUp == procAlive /\ srvPc = "running" /\ fwdPc = "running"

(***************************************************************************)
(* accept_loop and handle_connection (server.rs:139-237).                  *)
(***************************************************************************)
\* listener.accept() returns a stream, handle_connection is spawned and
\* accept_async succeeds: the channel is created and the task asks for the
\* registry's write guard.  (Nothing shared is touched between the accept
\* and the end of the handshake, so the two are one step.)
Accept(c) ==
    /\ RuntimeUp
    /\ connPc[c] = "free"
    /\ \A d \in Conns : d < c => connPc[d] # "free"
    /\ connPc' = [connPc EXCEPT ![c] = "add"]
    /\ chanOpen' = [chanOpen EXCEPT ![c] = TRUE]
    /\ regWaiters' = RegWait(c, "write")
    /\ UNCHANGED <<client_id, out, call, recvCount, clients, next_id, regReaders,
                   chan, socket, produced, lastFrame>>
    /\ UNCHANGED <<storeVars, bridgeVars, hostVars, lifeVars>>

\* the most accept errors followed
MaxAcceptErrs == 1

\* listener.accept() returns Err(e): the error is logged and the loop goes on
AcceptError ==
    /\ RuntimeUp
    /\ acceptErrs < MaxAcceptErrs
    /\ acceptErrs' = acceptErrs + 1
    /\ UNCHANGED <<srvPc, lockFile, lockOps, codec, start, procAlive>>
    /\ UNCHANGED <<connVars, storeVars, bridgeVars, hostVars>>

\* listener.accept() returns a stream and accept_async fails:
\* handle_connection returns ConnectionError::Handshake
HandshakeFail(c) ==
    /\ RuntimeUp
    /\ connPc[c] = "free"
    /\ \A d \in Conns : d < c => connPc[d] # "free"
    /\ connPc' = [connPc EXCEPT ![c] = "done"]
    /\ UNCHANGED <<client_id, out, call, recvCount, clients, next_id, regReaders,
                   regWaiters, chan, chanOpen, socket, produced, lastFrame>>
    /\ UNCHANGED <<storeVars, bridgeVars, hostVars, lifeVars>>

\* state.add_client(client_tx) under the write guard; sender_task is spawned
Register(c) ==
    /\ RuntimeUp
    /\ connPc[c] = "add"
    /\ RegWriteGranted(c)
    /\ LET r == add_client(clients, next_id, c)
       IN /\ clients' = r.clients
          /\ next_id' = r.next_id
          /\ client_id' = [client_id EXCEPT ![c] = r.id]
    /\ regWaiters' = Tail(regWaiters)
    /\ connPc' = [connPc EXCEPT ![c] = "recv"]
    /\ UNCHANGED <<out, call, recvCount, regReaders, chan, chanOpen, socket, produced, lastFrame>>
    /\ UNCHANGED <<storeVars, bridgeVars, hostVars, lifeVars>>

\* the reader has a message to enqueue: it asks for the registry's read guard
QueueOut(c, msg) ==
    /\ out' = [out EXCEPT ![c] = msg]
    /\ produced' = [produced EXCEPT ![c] = Append(@, msg)]
    /\ regWaiters' = RegWait(c, "read")
    /\ connPc' = [connPc EXCEPT ![c] = "regread"]

\* Ok(Message::Text(text)): handle_message
ReadText(c, text) ==
    /\ RuntimeUp
    /\ connPc[c] = "recv"
    /\ recvCount' = [recvCount EXCEPT ![c] = @ + 1]
    /\ lastFrame' = [lastFrame EXCEPT ![c] = TextFrame(text, PeerClosed(c))]
    /\ IF EntersTool(text)
       THEN /\ call' = [call EXCEPT ![c] = [active |-> TRUE, id |-> text.id,
                                            name |-> text.params.name,
                                            arguments |-> text.params.arguments]]
            /\ connPc' = [connPc EXCEPT ![c] = "tool"]
            /\ UNCHANGED <<out, produced, regWaiters>>
       ELSE LET r == handle_message(text)
            IN IF r.t = "None"
               THEN UNCHANGED <<connPc, out, produced, regWaiters, call>>
               ELSE /\ QueueOut(c, TextMsg(r.v, c, recvCount'[c]))
                    /\ UNCHANGED call
    /\ UNCHANGED <<client_id, clients, next_id, regReaders, chan, chanOpen, socket>>
    /\ UNCHANGED <<storeVars, bridgeVars, hostVars, lifeVars>>

\* ws_receiver.next() yields a text while the peers have frames left
RecvText(c, text) == FramesLeft /\ ReadText(c, text)

\* Ok(Message::Ping(data)): a pong with the same payload is to be enqueued
RecvPing(c, data) ==
    /\ RuntimeUp
    /\ connPc[c] = "recv"
    /\ FramesLeft
    /\ recvCount' = [recvCount EXCEPT ![c] = @ + 1]
    /\ lastFrame' = [lastFrame EXCEPT ![c] = PingFrame(data)]
    /\ QueueOut(c, PongMsg(data, c, recvCount'[c]))
    /\ UNCHANGED <<client_id, call, clients, next_id, regReaders, chan, chanOpen, socket>>
    /\ UNCHANGED <<storeVars, bridgeVars, hostVars, lifeVars>>

\* Ok(_): binary, pong and raw frames are ignored
RecvOther(c) ==
    /\ RuntimeUp
    /\ connPc[c] = "recv"
    /\ FramesLeft
    /\ recvCount' = [recvCount EXCEPT ![c] = @ + 1]
    /\ lastFrame' = [lastFrame EXCEPT ![c] = OtherFrame("other")]
    /\ UNCHANGED <<connPc, client_id, out, call, clients, next_id, regReaders,
                   regWaiters, chan, chanOpen, socket, produced>>
    /\ UNCHANGED <<storeVars, bridgeVars, hostVars, lifeVars>>

\* Ok(Message::Close(_)), Err(e) or the end of the stream: the loop is left
\* and the task asks for the registry's write guard
RecvEnd(c) ==
    /\ RuntimeUp
    /\ connPc[c] = "recv"
    /\ connPc' = [connPc EXCEPT ![c] = "remove"]
    /\ regWaiters' = RegWait(c, "write")
    /\ UNCHANGED <<client_id, out, call, recvCount, clients, next_id, regReaders,
                   chan, chanOpen, socket, produced, lastFrame>>
    /\ UNCHANGED <<storeVars, bridgeVars, hostVars, lifeVars>>

\* server_state.read().await returns: the reader holds a read guard
RegRead(c) ==
    /\ RuntimeUp
    /\ connPc[c] = "regread"
    /\ RegReadGranted(c)
    /\ regWaiters' = Tail(regWaiters)
    /\ regReaders' = regReaders \cup {c}
    /\ connPc' = [connPc EXCEPT ![c] = "send"]
    /\ UNCHANGED <<client_id, out, call, recvCount, clients, next_id, chan, chanOpen,
                   socket, produced, lastFrame>>
    /\ UNCHANGED <<storeVars, bridgeVars, hostVars, lifeVars>>

\* tx.send(msg) on a tokio mpsc channel with room: the message is queued last
mpsc_send(q, msg) == Append(q, msg)

\* the queue the reader's message goes to: the tx of the first client whose
\* id is client_id, or 0
TargetOf(c) ==
    LET i == find_client(clients, client_id[c])
    IN IF i = 0 THEN 0 ELSE clients[i].tx

\* client.tx.send(msg).await under the read guard, then the guard is dropped.
\* The send suspends while the queue is full; it fails, and the failure is
\* ignored, when the receiving end is gone.
Send(c) ==
    /\ RuntimeUp
    /\ connPc[c] = "send"
    /\ LET tx == TargetOf(c)
       IN IF tx = 0 \/ ~chanOpen[tx]
          THEN UNCHANGED chan
          ELSE /\ Len(chan[tx]) < ChannelCap
               /\ chan' = [chan EXCEPT ![tx] = mpsc_send(@, out[c])]
    /\ out' = [out EXCEPT ![c] = NoMsg]
    /\ regReaders' = regReaders \ {c}
    /\ connPc' = [connPc EXCEPT ![c] = "recv"]
    /\ UNCHANGED <<client_id, call, recvCount, clients, next_id, regWaiters, chanOpen,
                   socket, produced, lastFrame>>
    /\ UNCHANGED <<storeVars, bridgeVars, hostVars, lifeVars>>

\* cleanup: state.remove_client(&client_id) under the write guard, then
\* sender_task.abort() drops the receiving end and what is still queued
Remove(c) ==
    /\ RuntimeUp
    /\ connPc[c] = "remove"
    /\ RegWriteGranted(c)
    /\ clients' = remove_client(clients, client_id[c])
    /\ regWaiters' = Tail(regWaiters)
    /\ chanOpen' = [chanOpen EXCEPT ![c] = FALSE]
    /\ chan' = [chan EXCEPT ![c] = <<>>]
    /\ connPc' = [connPc EXCEPT ![c] = "done"]
    /\ UNCHANGED <<client_id, out, call, recvCount, next_id, regReaders, socket, produced, lastFrame>>
    /\ UNCHANGED <<storeVars, bridgeVars, hostVars, lifeVars>>

\* ws_send with a defect: the message is written ahead of the earlier ones
ws_send_front(sock, msg) == <<msg>> \o sock

\* ws_sender.send(msg): the message follows what was written before
ws_send(sock, msg) == Append(sock, msg)

\* sender_task: client_rx.recv() yields a message and ws_sender.send succeeds
WriterSend(c) ==
    /\ RuntimeUp
    /\ chanOpen[c]
    /\ chan[c] # <<>>
    /\ socket' = [socket EXCEPT ![c] = ws_send(@, Head(chan[c]))]
    /\ chan' = [chan EXCEPT ![c] = Tail(@)]
    /\ UNCHANGED <<connPc, client_id, out, call, recvCount, clients, next_id,
                   regReaders, regWaiters, chanOpen, produced, lastFrame>>
    /\ UNCHANGED <<storeVars, bridgeVars, hostVars, lifeVars>>

\* sender_task: ws_sender.send fails, the task ends and client_rx is dropped
WriterFail(c) ==
    /\ RuntimeUp
    /\ chanOpen[c]
    /\ chan[c] # <<>>
    /\ chanOpen' = [chanOpen EXCEPT ![c] = FALSE]
    /\ chan' = [chan EXCEPT ![c] = <<>>]
    /\ UNCHANGED <<connPc, client_id, out, call, recvCount, clients, next_id,
                   regReaders, regWaiters, socket, produced, lastFrame>>
    /\ UNCHANGED <<storeVars, bridgeVars, hostVars, lifeVars>>


(***************************************************************************)
(* Paths.  A path is a sequence of tokens ("d", "/", "a", ".", "rs"), so   *)
(* that substring tests and extensions are computed, not assumed.          *)
(***************************************************************************)
\* str::contains at token granularity
Contains(full, sub) ==
    \E i \in 0..(Len(full) - Len(sub)) : SubSeq(full, i + 1, i + Len(sub)) = sub

\* Path::file_name: the last component, None for a path ending in the root
file_name(path) ==
    IF path = <<>> \/ path[Len(path)] = "/" THEN None ELSE Some(path[Len(path)])

\* Path::extension: what follows the last dot of the file name
extension(path) ==
    IF Len(path) >= 3 /\ path[Len(path) - 1] = "." /\ path[Len(path) - 2] # "/"
    THEN path[Len(path)]
    ELSE ""

\* the language table of sync_app_to_ide_state (main.rs:443-470)
language_id(ext) ==
    CASE ext = "rs" -> "rust"
      [] ext = "py" -> "python"
      [] ext = "js" -> "javascript"
      [] ext = "ts" -> "typescript"
      [] ext = "tsx" -> "typescriptreact"
      [] ext = "jsx" -> "javascriptreact"
      [] ext = "go" -> "go"
      [] ext = "java" -> "java"
      [] ext \in {"c", "h"} -> "c"
      [] ext \in {"cpp", "hpp", "cc", "cxx"} -> "cpp"
      [] ext = "rb" -> "ruby"
      [] ext = "php" -> "php"
      [] ext = "swift" -> "swift"
      [] ext \in {"kt", "kts"} -> "kotlin"
      [] ext = "scala" -> "scala"
      [] ext = "lua" -> "lua"
      [] ext \in {"sh", "bash"} -> "shellscript"
      [] ext = "json" -> "json"
      [] ext \in {"yaml", "yml"} -> "yaml"
      [] ext = "toml" -> "toml"
      [] ext = "xml" -> "xml"
      [] ext = "html" -> "html"
      [] ext = "css" -> "css"
      [] ext = "scss" -> "scss"
      [] ext = "md" -> "markdown"
      [] OTHER -> "plaintext"

(***************************************************************************)
(* The host model (App) as far as the IDE integration reads or writes it.  *)
(***************************************************************************)
\* app.vcs_info.root_path
RootPath == <<"/", "w">>

\* app.diff_files: the path of each file of the review (new_path or old_path)
DiffFiles == << <<"a", ".", "rs">>, <<"d", "/", "a", ".", "rs">> >>

\* a review comment; line_range is None or Some([start, end])
Comment(content, comment_type, line_range) ==
    [content |-> content, comment_type |-> comment_type, line_range |-> line_range]

\* one entry of app.session.files: file comments and line comments of a path
FileReview(path, file_comments, line_comments) ==
    [path |-> path, file_comments |-> file_comments, line_comments |-> line_comments]

\* comment_type_to_severity (main.rs:559-566)
comment_type_to_severity(comment_type) ==
    CASE comment_type = "Issue" -> "error"
      [] comment_type = "Suggestion" -> "warning"
      [] comment_type = "Note" -> "information"
      [] comment_type = "Praise" -> "hint"

(***************************************************************************)
(* IdeState (state.rs:15-148).                                             *)
(***************************************************************************)
\* IdeState::default()
EmptyIdeState ==
    [selection |-> None, open_files |-> <<>>, workspace_path |-> None,
     workspace_name |-> None, diagnostics |-> <<>>, active_file_index |-> 0]

set_workspace(st, path, name) ==
    [st EXCEPT !.workspace_path = Some(path), !.workspace_name = name]

set_open_files(st, files) == [st EXCEPT !.open_files = files]

\* set_active_file with a defect: the flags of the files are left as they are
set_active_file_index_only(st, index) == [st EXCEPT !.active_file_index = index]

\* set_active_file: the index, and is_active of every file recomputed.
\* Indices are 0-based as in the code; sequence position i holds index i - 1.
set_active_file(st, index) ==
    [st EXCEPT !.active_file_index = index,
               !.open_files = [i \in 1..Len(st.open_files) |->
                                 [st.open_files[i] EXCEPT !.is_active = (i - 1 = index)]]]

set_diagnostics(st, diagnostics) == [st EXCEPT !.diagnostics = diagnostics]

set_selection(st, selection) == [st EXCEPT !.selection = selection]

(***************************************************************************)
(* sync_app_to_ide_state: the values it derives (main.rs:416-555).         *)
(***************************************************************************)
\* the OpenFileInfo list built from app.diff_files (main.rs:426-490)
SyncOpenFiles(a) ==
    [i \in 1..Len(DiffFiles) |->
        [file_path |-> DiffFiles[i],
         language_id |-> language_id(extension(DiffFiles[i])),
         is_dirty |-> ~(DiffFiles[i] \in a.reviewed),
         is_active |-> (i - 1 = a.current_file_idx),
         status |-> "Modified",
         reviewed |-> (DiffFiles[i] \in a.reviewed)]]

\* the diagnostics of one file's comments: file-level first (line 1..1),
\* then the line comments in order (main.rs:499-527)
RECURSIVE LineDiagnostics(_, _)
LineDiagnostics(path, lcs) ==
    IF lcs = <<>> THEN <<>>
    ELSE LET lc == Head(lcs)
             one(cm) ==
                 [file_path |-> path,
                  start_line |-> IF cm.line_range.t = "Some" THEN cm.line_range.v[1] ELSE lc.line,
                  end_line |-> IF cm.line_range.t = "Some" THEN cm.line_range.v[2] ELSE lc.line,
                  message |-> cm.content,
                  severity |-> comment_type_to_severity(cm.comment_type),
                  comment_type |-> cm.comment_type]
         IN [i \in 1..Len(lc.comments) |-> one(lc.comments[i])]
            \o LineDiagnostics(path, Tail(lcs))

FileDiagnostics(fr) ==
    [i \in 1..Len(fr.file_comments) |->
        [file_path |-> fr.path, start_line |-> 1, end_line |-> 1,
         message |-> fr.file_comments[i].content,
         severity |-> comment_type_to_severity(fr.file_comments[i].comment_type),
         comment_type |-> fr.file_comments[i].comment_type]]
    \o LineDiagnostics(fr.path, fr.line_comments)

RECURSIVE SyncDiagnostics(_)
SyncDiagnostics(files) ==
    IF files = <<>> THEN <<>>
    ELSE FileDiagnostics(Head(files)) \o SyncDiagnostics(Tail(files))

\* the selection step (main.rs:531-555): the snapshot after it.  In
\* visual-select mode the selection is written only when there is an anchor
\* and a current file; outside it the selection is cleared.
SyncSelection(st, a) ==
    IF a.input_mode = "VisualSelect"
    THEN IF a.visual_anchor.t = "Some" /\ a.current_file_idx < Len(DiffFiles)
         THEN set_selection(st, Some([file_path |-> DiffFiles[a.current_file_idx + 1],
                                      text |-> "",
                                      start_line |-> a.visual_anchor.v,
                                      end_line |-> a.visual_anchor.v]))
         ELSE st
    ELSE set_selection(st, None)


\* the host is inside sync_app_to_ide_state, holding the write guard
SyncPcs == {"sync_files", "sync_diag", "sync_sel"}

\* the snapshot a complete sync of host model a makes of snapshot st
FullSync(st, a) ==
    SyncSelection(
        set_diagnostics(
            set_active_file(
                set_open_files(set_workspace(st, RootPath, file_name(RootPath)),
                               SyncOpenFiles(a)),
                a.current_file_idx),
            SyncDiagnostics(a.session)),
        a)


(***************************************************************************)
(* Tools (src/ide/tools/*.rs) and dispatch_tool (handlers.rs:136-161).     *)
(***************************************************************************)
\* tool arguments: a map with the two keys the tools look at; each is
\* absent, a string (a path), an integer, or a value of another JSON type
Absent == [a |-> "absent"]
StrArg(s) == [a |-> "str", s |-> s]
\* an integer that fits i64, written q * 2^32 + n (TLC's integers end below 2^31)
WideArg(q, n) == [a |-> "int", q |-> q, n |-> n]
IntArg(n) == WideArg(0, n)
\* an integer above i64::MAX, which serde_json keeps as u64: as_i64 gives None
HugeArg == [a |-> "u64"]
OtherArg == [a |-> "other"]
Arguments(filePath, line) == [filePath |-> filePath, line |-> line]

ToolsCallResult(text, is_error) ==
    [json |-> "ToolsCallResult", content |-> <<text>>, isError |-> is_error]

Position(line) == [line |-> line, character |-> 0]

\* get_current_selection with a defect: no selection is a failed tool
get_current_selection_none_fails(st) ==
    IF st.selection.t = "Some"
    THEN ToolsCallResult([filePath |-> st.selection.v.file_path,
                          text |-> st.selection.v.text,
                          start |-> Position(st.selection.v.start_line),
                          end |-> Position(st.selection.v.end_line)], FALSE)
    ELSE ToolsCallResult([error |-> "No selection"], TRUE)

\* tools::get_current_selection (selection.rs)
get_current_selection(st) ==
    IF st.selection.t = "Some"
    THEN ToolsCallResult([filePath |-> st.selection.v.file_path,
                          text |-> st.selection.v.text,
                          start |-> Position(st.selection.v.start_line),
                          end |-> Position(st.selection.v.end_line)], FALSE)
    ELSE ToolsCallResult([error |-> "No selection"], FALSE)

get_open_editors(st) ==
    ToolsCallResult([i \in 1..Len(st.open_files) |->
                        [filePath |-> st.open_files[i].file_path,
                         languageId |-> st.open_files[i].language_id,
                         isDirty |-> st.open_files[i].is_dirty,
                         isActive |-> st.open_files[i].is_active]], FALSE)

\* IdeState::get_workspace_folders (state.rs:86-104) and the tool's uri
get_workspace_folders(st) ==
    ToolsCallResult(
        IF st.workspace_path.t = "Some"
        THEN << [uri |-> <<"file://">> \o st.workspace_path.v,
                 name |-> IF st.workspace_name.t = "Some"
                          THEN st.workspace_name.v
                          ELSE IF file_name(st.workspace_path.v).t = "Some"
                               THEN file_name(st.workspace_path.v).v
                               ELSE "workspace"] >>
        ELSE <<>>, FALSE)

DiagnosticSeverity(tag) ==
    CASE tag = "error" -> "Error"
      [] tag = "warning" -> "Warning"
      [] tag = "hint" -> "Hint"
      [] OTHER -> "Information"

\* get_diagnostics with a defect: the path filter is not applied
get_diagnostics_unfiltered(st, arguments) ==
    ToolsCallResult([i \in 1..Len(st.diagnostics) |->
                          [filePath |-> st.diagnostics[i].file_path,
                           start |-> Position(st.diagnostics[i].start_line),
                           end |-> Position(st.diagnostics[i].end_line),
                           message |-> st.diagnostics[i].message,
                           severity |-> DiagnosticSeverity(st.diagnostics[i].severity),
                           source |-> "tuicr"]], FALSE)

\* IdeState::get_diagnostics (state.rs:107-117) and the tool's mapping
get_diagnostics(st, arguments) ==
    LET kept == IF arguments.filePath.a = "str"
                THEN SelectSeq(st.diagnostics, LAMBDA d : d.file_path = arguments.filePath.s)
                ELSE st.diagnostics
    IN ToolsCallResult([i \in 1..Len(kept) |->
                          [filePath |-> kept[i].file_path,
                           start |-> Position(kept[i].start_line),
                           end |-> Position(kept[i].end_line),
                           message |-> kept[i].message,
                           severity |-> DiagnosticSeverity(kept[i].severity),
                           source |-> "tuicr"]], FALSE)

UnknownTool(name) == ToolsCallResult([error |-> "Unknown tool", name |-> name], TRUE)

\* the tools that dispatch_tool runs under the store's read guard
ReadTool(name, arguments, st) ==
    CASE name = "getCurrentSelection" -> get_current_selection(st)
      [] name = "getOpenEditors" -> get_open_editors(st)
      [] name = "getWorkspaceFolders" -> get_workspace_folders(st)
      [] name = "getDiagnostics" -> get_diagnostics(st, arguments)
      [] OTHER -> UnknownTool(name)

\* A u32 is kept as two 16-bit limbs, so that the wrap-around of `as u32`
\* is computed within TLC's integers.
Limb == 65536
\* AsU32 with a defect: a negative value becomes 0
AsU32Clamped(n) ==
    [hi |-> IF n < 0 THEN 0 ELSE (n \div Limb) % Limb,
     lo |-> IF n < 0 THEN 0 ELSE n % Limb]

\* i64 -> u32 (`l as u32`): the value modulo 2^32
AsU32(n) == [hi |-> (n \div Limb) % Limb, lo |-> n % Limb]

\* open_file_line with a defect: the line argument is ignored
open_file_line_ignored(arguments) == None

\* open_file: the line argument, as_i64 then `as u32` (open_file.rs:29-32)
open_file_line(arguments) ==
    IF arguments.line.a = "int" THEN Some(AsU32(arguments.line.n)) ELSE None

\* IdeCommand::OpenFile; n is a history field, the command's serial number
OpenFile(path, line, n) == [path |-> path, line |-> line, n |-> n]

\* open_file_missing with a defect: the missing path is not flagged
open_file_missing_unflagged ==
    ToolsCallResult([success |-> FALSE,
                     error |-> <<"Missing required parameter", ": ", "filePath">>], FALSE)

\* open_file without a string filePath (open_file.rs): the text is kept as
\* a sequence of pieces, so that "contains" can be asked of it
open_file_missing ==
    ToolsCallResult([success |-> FALSE,
                     error |-> <<"Missing required parameter", ": ", "filePath">>], TRUE)
open_file_sent == ToolsCallResult([success |-> TRUE], FALSE)
open_file_failed ==
    ToolsCallResult([success |-> FALSE, error |-> "Failed to send command"], TRUE)

\* tool_response with a defect: a failed tool becomes a protocol error
tool_response_error(id, result) ==
    IF result.isError
    THEN ResponseError(id, JsonRpcError(INVALID_PARAMS, "Tool failed"))
    ELSE ResponseSuccess(id, result)

\* handle_tools_call after dispatch_tool: the result, failed or not, is
\* wrapped in a success response (handlers.rs:131-132)
tool_response(id, result) == ResponseSuccess(id, result)

\* capacity of the async command queue (tokio mpsc::channel(32), main.rs:138),
\* scaled down
CmdCap == 2

\* StateReadGranted with a defect: the read guard is given while the host writes
StateReadAlways == TRUE

\* state.read().await returns: tool handlers only wait for the host's write guard
StateReadGranted == ~stateWriter

\* ToolAcquire with a defect: the handler resets the snapshot's workspace
\* when it is given the guard
ToolAcquireWrites(c) ==
    /\ RuntimeUp
    /\ connPc[c] = "tool"
    /\ StateReadGranted
    /\ stateReaders' = stateReaders \cup {c}
    /\ connPc' = [connPc EXCEPT ![c] = "toolrun"]
    /\ cleanFrames' = 0
    /\ ide_state' = [ide_state EXCEPT !.workspace_path = None]
    /\ UNCHANGED <<client_id, out, call, recvCount, clients, next_id, regReaders,
                   regWaiters, chan, chanOpen, socket, produced, lastFrame>>
    /\ UNCHANGED <<stateWriter, committed, bridgeVars, lifeVars>>
    /\ UNCHANGED hostCore

\* dispatch_tool: state.read().await
ToolAcquire(c) ==
    /\ RuntimeUp
    /\ connPc[c] = "tool"
    /\ StateReadGranted
    /\ stateReaders' = stateReaders \cup {c}
    /\ connPc' = [connPc EXCEPT ![c] = "toolrun"]
    /\ cleanFrames' = 0
    /\ UNCHANGED <<client_id, out, call, recvCount, clients, next_id, regReaders,
                   regWaiters, chan, chanOpen, socket, produced, lastFrame>>
    /\ UNCHANGED <<ide_state, stateWriter, committed, bridgeVars, lifeVars>>
    /\ UNCHANGED hostCore

\* ToolRun with a defect: openFile goes on to send its command with the read
\* guard still held
ToolRunKeepsGuard(c) ==
    /\ RuntimeUp
    /\ connPc[c] = "toolrun"
    /\ stateReaders' = IF call[c].name = "openFile" /\ call[c].arguments.filePath.a = "str"
                       THEN stateReaders
                       ELSE stateReaders \ {c}
    /\ cleanFrames' = 0
    /\ IF call[c].name = "openFile"
       THEN IF call[c].arguments.filePath.a = "str"
            THEN /\ connPc' = [connPc EXCEPT ![c] = "cmdsend"]
                 /\ UNCHANGED <<out, produced, regWaiters, call>>
            ELSE /\ QueueOut(c, TextMsg(tool_response(call[c].id, open_file_missing),
                                        c, recvCount[c]))
                 /\ call' = [call EXCEPT ![c] = NoCall]
       ELSE /\ QueueOut(c, TextMsg(tool_response(call[c].id,
                                       ReadTool(call[c].name, call[c].arguments, ide_state)),
                                   c, recvCount[c]))
            /\ call' = [call EXCEPT ![c] = NoCall]
    /\ UNCHANGED <<client_id, recvCount, clients, next_id, regReaders, chan, chanOpen,
                   socket, lastFrame>>
    /\ UNCHANGED <<ide_state, stateWriter, committed, bridgeVars, lifeVars>>
    /\ UNCHANGED hostCore

\* dispatch_tool under the guard.  A read tool (or an unknown name) computes
\* its result from the snapshot and the guard is dropped on return; openFile
\* drops the guard first, validates filePath and goes on to send its command.
ToolRun(c) ==
    /\ RuntimeUp
    /\ connPc[c] = "toolrun"
    /\ stateReaders' = stateReaders \ {c}
    /\ cleanFrames' = 0
    /\ IF call[c].name = "openFile"
       THEN IF call[c].arguments.filePath.a = "str"
            THEN /\ connPc' = [connPc EXCEPT ![c] = "cmdsend"]
                 /\ UNCHANGED <<out, produced, regWaiters, call>>
            ELSE /\ QueueOut(c, TextMsg(tool_response(call[c].id, open_file_missing),
                                        c, recvCount[c]))
                 /\ call' = [call EXCEPT ![c] = NoCall]
       ELSE /\ QueueOut(c, TextMsg(tool_response(call[c].id,
                                       ReadTool(call[c].name, call[c].arguments, ide_state)),
                                   c, recvCount[c]))
            /\ call' = [call EXCEPT ![c] = NoCall]
    /\ UNCHANGED <<client_id, recvCount, clients, next_id, regReaders, chan, chanOpen,
                   socket, lastFrame>>
    /\ UNCHANGED <<ide_state, stateWriter, committed, bridgeVars, lifeVars>>
    /\ UNCHANGED hostCore

\* open_file: command_tx.send(cmd).await.  It suspends while the queue is
\* full and fails when the receiving end has been dropped.
CmdSend(c) ==
    /\ procAlive
    /\ srvPc = "running"
    /\ connPc[c] = "cmdsend"
    /\ IF fwdPc = "running"
       THEN /\ Len(async_cmd) < CmdCap
            /\ LET cmd == OpenFile(call[c].arguments.filePath.s,
                                   open_file_line(call[c].arguments), Len(cmdLog) + 1)
               IN /\ async_cmd' = Append(async_cmd, cmd)
                  /\ cmdLog' = Append(cmdLog, cmd)
            /\ QueueOut(c, TextMsg(tool_response(call[c].id, open_file_sent),
                                   c, recvCount[c]))
       ELSE /\ UNCHANGED <<async_cmd, cmdLog>>
            /\ QueueOut(c, TextMsg(tool_response(call[c].id, open_file_failed),
                                   c, recvCount[c]))
    /\ call' = [call EXCEPT ![c] = NoCall]
    /\ UNCHANGED <<client_id, recvCount, clients, next_id, regReaders, chan, chanOpen,
                   socket, lastFrame>>
    /\ UNCHANGED <<cmd_chan, fwdPc, handled>>
    /\ UNCHANGED <<storeVars, hostVars, lifeVars>>


(***************************************************************************)
(* The forwarder of the IDE thread (main.rs:152-158) and IdeServer::start. *)
(***************************************************************************)
\* cmd_tx_send with a defect: the command overtakes those already forwarded
cmd_tx_send_front(q, cmd) == <<cmd>> \o q

\* cmd_tx.send(cmd) on the std mpsc channel: the command is queued last
cmd_tx_send(q, cmd) == Append(q, cmd)

\* async_cmd_rx.recv() yields a command; cmd_tx.send(cmd) passes it on, or
\* fails because the host's receiver is gone: the loop is left, block_on
\* returns and the server is dropped, which drops its LockFile.
Forward ==
    /\ procAlive
    /\ srvPc = "running"
    /\ fwdPc = "running"
    /\ async_cmd # <<>>
    /\ IF hostPc = "exited"
       THEN /\ fwdPc' = "stopped"
            /\ async_cmd' = <<>>
            /\ lockFile' = FALSE
            /\ UNCHANGED cmd_chan
       ELSE /\ cmd_chan' = cmd_tx_send(cmd_chan, Head(async_cmd))
            /\ async_cmd' = Tail(async_cmd)
            /\ UNCHANGED <<fwdPc, lockFile>>
    /\ UNCHANGED <<cmdLog, handled, srvPc, procAlive, lockOps, codec, start, acceptErrs>>
    /\ UNCHANGED <<connVars, storeVars, hostVars>>

\* ServerStart with a defect: a failed start ends the host loop
ServerStartFatal(ok) ==
    /\ procAlive
    /\ srvPc = "init"
    /\ IF ok
       THEN /\ srvPc' = "running"
            /\ lockFile' = TRUE
            /\ UNCHANGED <<fwdPc, hostPc>>
       ELSE /\ srvPc' = "failed"
            /\ fwdPc' = "stopped"
            /\ hostPc' = "quit"
            /\ UNCHANGED lockFile
    /\ UNCHANGED <<async_cmd, cmd_chan, cmdLog, handled, procAlive, lockOps, codec, start, acceptErrs>>
    /\ UNCHANGED <<connVars, storeVars, app, syncRet, drained, cleanFrames>>

\* server.start: the port is bound, the lock file is written and the accept
\* loop is spawned; or binding or writing fails, start returns an error and
\* the IDE thread's async block returns
ServerStart(ok) ==
    /\ procAlive
    /\ srvPc = "init"
    /\ IF ok
       THEN /\ srvPc' = "running"
            /\ lockFile' = TRUE
            /\ UNCHANGED fwdPc
       ELSE /\ srvPc' = "failed"
            /\ fwdPc' = "stopped"
            /\ UNCHANGED lockFile
    /\ UNCHANGED <<async_cmd, cmd_chan, cmdLog, handled, procAlive, lockOps, codec, start, acceptErrs>>
    /\ UNCHANGED <<connVars, storeVars, hostVars>>

(***************************************************************************)
(* The host loop (main.rs:163, 214-397, 407-556, 570-627).                 *)
(***************************************************************************)
\* MAX_IDE_COMMANDS_PER_FRAME (10 in the code, main.rs:234), scaled down
MaxPerFrame == 1

\* try_write with a defect: the readers are not looked at
try_write_ignores_readers == ~stateWriter

\* ide_state.try_write() succeeds
try_write == stateReaders = {} /\ ~stateWriter

\* sync_app_to_ide_state up to set_workspace: try_write, and on failure the
\* sync is skipped
TrySync(ret) ==
    IF try_write
    THEN /\ stateWriter' = TRUE
         /\ ide_state' = set_workspace(ide_state, RootPath, file_name(RootPath))
         /\ hostPc' = "sync_files"
         /\ syncRet' = ret
         /\ UNCHANGED <<stateReaders, committed>>
    ELSE /\ hostPc' = ret
         /\ UNCHANGED <<storeVars, syncRet>>

\* main.rs:163, the initial sync before the terminal is set up
HostInitSync ==
    /\ hostPc = "init_sync"
    /\ TrySync("render")
    /\ UNCHANGED <<app, drained, cleanFrames>>
    /\ UNCHANGED <<connVars, bridgeVars, lifeVars>>

\* set_open_files and set_active_file
HostSyncFiles ==
    /\ hostPc = "sync_files"
    /\ ide_state' = set_active_file(set_open_files(ide_state, SyncOpenFiles(app)),
                                    app.current_file_idx)
    /\ hostPc' = "sync_diag"
    /\ UNCHANGED <<stateReaders, stateWriter, committed, app, syncRet, drained, cleanFrames>>
    /\ UNCHANGED <<connVars, bridgeVars, lifeVars>>

\* set_diagnostics
HostSyncDiag ==
    /\ hostPc = "sync_diag"
    /\ ide_state' = set_diagnostics(ide_state, SyncDiagnostics(app.session))
    /\ hostPc' = "sync_sel"
    /\ UNCHANGED <<stateReaders, stateWriter, committed, app, syncRet, drained, cleanFrames>>
    /\ UNCHANGED <<connVars, bridgeVars, lifeVars>>

\* the selection step; the write guard is dropped on return
HostSyncSel ==
    /\ hostPc = "sync_sel"
    /\ ide_state' = SyncSelection(ide_state, app)
    /\ committed' = ide_state'
    /\ stateWriter' = FALSE
    /\ hostPc' = syncRet
    /\ UNCHANGED <<stateReaders, app, syncRet, drained, cleanFrames>>
    /\ UNCHANGED <<connVars, bridgeVars, lifeVars>>

\* terminal.draw
HostRender ==
    /\ hostPc = "render"
    /\ hostPc' = "drain"
    /\ drained' = 0
    /\ UNCHANGED <<app, syncRet, cleanFrames>>
    /\ UNCHANGED <<connVars, storeVars, bridgeVars, lifeVars>>

\* file_idx with a defect: the last matching file is taken (rposition)
file_idx_last(cmd) ==
    IF \E i \in 1..Len(DiffFiles) : Contains(DiffFiles[i], cmd.path)
    THEN CHOOSE i \in 1..Len(DiffFiles) :
            /\ Contains(DiffFiles[i], cmd.path)
            /\ \A j \in (i + 1)..Len(DiffFiles) : ~Contains(DiffFiles[j], cmd.path)
    ELSE 0

\* handle_ide_command: the position of the first diff file whose path
\* contains the command's path (0: none)
file_idx(cmd) == FirstIndex(DiffFiles, LAMBDA f : Contains(f, cmd.path))

\* app.line_annotations: per line of the rendered diff, a file header or a
\* diff line with its file index and its new and old line numbers
FileHeader(f) == [anno |-> "FileHeader", file_idx |-> f]
DiffLine(f, new, old) ==
    [anno |-> "DiffLine", file_idx |-> f, new_lineno |-> new, old_lineno |-> old]
LineAnnotations ==
    << FileHeader(0),
       DiffLine(0, Some(AsU32(1)), Some(AsU32(1))),
       DiffLine(0, Some(AsU32(2)), None),
       FileHeader(1),
       DiffLine(1, None, Some(AsU32(2))),
       DiffLine(1, Some(AsU32(2)), Some(AsU32(3))),
       DiffLine(1, Some(AsU32(3)), Some(AsU32(4))) >>

\* app.diff_state.viewport_height
ViewportHeight == 2

\* usize::saturating_sub
saturating_sub(a, b) == IF a >= b THEN a - b ELSE 0

\* the position of the first diff line of file idx that carries target_line
\* as its new or old line number (0: none)
anno_pos(idx, target_line) ==
    FirstIndex(LineAnnotations,
               LAMBDA l : /\ l.anno = "DiffLine"
                          /\ l.file_idx = idx
                          /\ (l.new_lineno = Some(target_line) \/ l.old_lineno = Some(target_line)))

\* the jump to a line (main.rs:589-617): cursor and scroll after it
jump_to_line(a, idx, line) ==
    IF line = None \/ anno_pos(idx, line.v) = 0
    THEN a
    ELSE LET anno_idx == anno_pos(idx, line.v) - 1
         IN [a EXCEPT !.cursor_line = anno_idx,
                      !.scroll_offset =
                          IF anno_idx < a.scroll_offset THEN anno_idx
                          ELSE IF anno_idx >= a.scroll_offset + saturating_sub(ViewportHeight, 1)
                          THEN saturating_sub(anno_idx, ViewportHeight \div 2)
                          ELSE a.scroll_offset]

\* handle_ide_command when the file was found at index idx (0-based): the
\* host model after the selection and the jump
select_file(a, idx, line) ==
    jump_to_line([a EXCEPT !.file_list_selected = Some(idx), !.current_file_idx = idx],
                 idx, line)

\* try_recv_rest with a defect: the command taken stays in the queue
try_recv_keeps(q) == q

\* rx.try_recv() on the std mpsc channel: what stays queued after the head
\* has been taken
try_recv_rest(q) == Tail(q)

\* frame_has_room with a defect: one command too many per frame
frame_has_room_off_by_one(n) == n <= MaxPerFrame

\* `for _ in 0..MAX_IDE_COMMANDS_PER_FRAME`: after n commands the drain loop
\* of this frame goes on
frame_has_room(n) == n < MaxPerFrame

\* rx.try_recv() yields a command: handle_ide_command selects the file and,
\* if it found one, syncs
HostDrainOne ==
    /\ hostPc = "drain"
    /\ frame_has_room(drained)
    /\ cmd_chan # <<>>
    /\ LET cmd == Head(cmd_chan)
           idx == file_idx(cmd)
       IN /\ cmd_chan' = try_recv_rest(cmd_chan)
          /\ handled' = Append(handled, cmd)
          /\ drained' = drained + 1
          /\ IF idx # 0
             THEN /\ app' = select_file(app, idx - 1, cmd.line)
                  /\ TrySync("drain")
                  /\ cleanFrames' = 0
             ELSE UNCHANGED <<app, hostPc, syncRet, storeVars, cleanFrames>>
    /\ UNCHANGED <<async_cmd, fwdPc, cmdLog>>
    /\ UNCHANGED <<connVars, lifeVars>>

\* the drain loop ends: the per-frame cap is reached or try_recv fails
HostDrainEnd ==
    /\ hostPc = "drain"
    /\ ~frame_has_room(drained) \/ cmd_chan = <<>>
    /\ hostPc' = "events"
    /\ UNCHANGED <<app, syncRet, drained, cleanFrames>>
    /\ UNCHANGED <<connVars, storeVars, bridgeVars, lifeVars>>

\* event::poll times out, or the event is no key press
HostNoEvent ==
    /\ hostPc = "events"
    /\ hostPc' = "frame_end"
    /\ UNCHANGED <<app, syncRet, drained, cleanFrames>>
    /\ UNCHANGED <<connVars, storeVars, bridgeVars, lifeVars>>

\* the host models a key press can lead to: another file, visual-select
\* mode entered (with or without an anchor) or left, a comment added
Sessions ==
    { <<>>,
      << FileReview(DiffFiles[1],
                    << Comment("c1", "Issue", None) >>,
                    << [line |-> 7, comments |-> << Comment("c2", "Praise", Some(<<7, 9>>)) >>] >>) >> }

\* visual-select mode entered (with or without an anchor) or left
ModeTargets(a) ==
    ( { [a EXCEPT !.input_mode = "VisualSelect", !.visual_anchor = v] : v \in {None, Some(3)} }
      \cup { [a EXCEPT !.input_mode = "Normal", !.visual_anchor = None] } ) \ {a}

UserTargets(a) ==
    ( { [a EXCEPT !.current_file_idx = i] : i \in 0..(Len(DiffFiles) - 1) }
      \cup ModeTargets(a)
      \cup { [a EXCEPT !.session = s] : s \in Sessions } ) \ {a}

\* a key press handled by one of the handle_*_action functions: the host
\* model changes and the change is published
HostUserInput(a) ==
    /\ hostPc = "events"
    /\ a \in UserTargets(app)
    /\ app' = a
    /\ TrySync("frame_end")
    /\ cleanFrames' = 0
    /\ UNCHANGED drained
    /\ UNCHANGED <<connVars, bridgeVars, lifeVars>>

\* a key press that makes the handler set should_quit
HostQuitKey ==
    /\ hostPc = "events"
    /\ app' = [app EXCEPT !.should_quit = TRUE]
    /\ hostPc' = "frame_end"
    /\ UNCHANGED <<syncRet, drained, cleanFrames>>
    /\ UNCHANGED <<connVars, storeVars, bridgeVars, lifeVars>>

\* the second Ctrl+C within the timeout: should_quit is set and `continue`
\* starts the next frame without the check at the end of the loop
HostCtrlC ==
    /\ hostPc = "events"
    /\ ~app.should_quit
    /\ app' = [app EXCEPT !.should_quit = TRUE]
    /\ hostPc' = "render"
    /\ UNCHANGED <<syncRet, drained, cleanFrames>>
    /\ UNCHANGED <<connVars, storeVars, bridgeVars, lifeVars>>

\* the end of the loop body: `if app.should_quit { break }`
HostFrameEnd ==
    /\ hostPc = "frame_end"
    /\ hostPc' = IF app.should_quit THEN "quit" ELSE "render"
    /\ cleanFrames' = IF stateReaders # {} \/ ide_state = FullSync(ide_state, app) THEN 0
                      ELSE IF cleanFrames < 2 THEN cleanFrames + 1 ELSE 2
    /\ UNCHANGED <<app, syncRet, drained>>
    /\ UNCHANGED <<connVars, storeVars, bridgeVars, lifeVars>>

\* main restores the terminal and returns: its locals, the command
\* receiver among them, are dropped
HostReturn ==
    /\ hostPc = "quit"
    /\ hostPc' = "exited"
    /\ UNCHANGED <<app, syncRet, drained, cleanFrames>>
    /\ UNCHANGED <<connVars, storeVars, bridgeVars, lifeVars>>

\* the process terminates after main has returned; the IDE thread is not
\* joined and ends with the process, without unwinding
ProcessExit ==
    /\ hostPc = "exited"
    /\ procAlive
    /\ procAlive' = FALSE
    /\ UNCHANGED <<srvPc, lockFile, lockOps, codec, start, acceptErrs>>
    /\ UNCHANGED <<connVars, storeVars, bridgeVars, hostVars>>


(***************************************************************************)
(* Initial states and specifications.                                      *)
(***************************************************************************)
\* App::new, as far as the IDE integration is concerned
InitApp ==
    [current_file_idx |-> 0, input_mode |-> "Normal", visual_anchor |-> None,
     session |-> <<>>, reviewed |-> {}, should_quit |-> FALSE,
     file_list_selected |-> None, cursor_line |-> 0, scroll_offset |-> 0]

\* no connection yet: ServerState::new()
InitConn ==
    /\ connPc = [c \in Conns |-> "free"]
    /\ client_id = [c \in Conns |-> 0]
    /\ out = [c \in Conns |-> NoMsg]
    /\ call = [c \in Conns |-> NoCall]
    /\ recvCount = [c \in Conns |-> 0]
    /\ clients = <<>>
    /\ next_id = 1
    /\ regReaders = {}
    /\ regWaiters = <<>>
    /\ chan = [c \in Conns |-> <<>>]
    /\ chanOpen = [c \in Conns |-> FALSE]
    /\ socket = [c \in Conns |-> <<>>]
    /\ produced = [c \in Conns |-> <<>>]
    /\ lastFrame = [c \in Conns |-> NoFrame]

\* new_shared_state(): an empty snapshot, no guard held
InitStore ==
    /\ ide_state = EmptyIdeState
    /\ stateReaders = {}
    /\ stateWriter = FALSE
    /\ committed = EmptyIdeState

InitBridge ==
    /\ async_cmd = <<>>
    /\ cmd_chan = <<>>
    /\ fwdPc = "running"
    /\ cmdLog = <<>>
    /\ handled = <<>>

\* main has spawned the IDE thread and is about to do the initial sync
InitHost ==
    /\ hostPc = "init_sync"
    /\ app = InitApp
    /\ syncRet = "render"
    /\ drained = 0
    /\ cleanFrames = 0

\* The whole program from its start: the IDE thread starts the server,
\* clients connect and call openFile, the host loop drains and quits.
Init ==
    /\ InitConn /\ InitStore /\ InitBridge /\ InitHost
    /\ srvPc = "init"
    /\ lockFile = FALSE
    /\ lockOps = <<>>
    /\ codec = NoCodec
    /\ start = NoStart
    /\ acceptErrs = 0
    /\ procAlive = TRUE

OpenFileTexts ==
    { Request("2.0", NumberId(1), "tools/call",
              CallParams("openFile", Arguments(StrArg(p), Absent))) :
        p \in { DiffFiles[2], <<"z">> } }

Next ==
    \/ \E ok \in BOOLEAN : ServerStart(ok)
    \/ \E c \in Conns : Accept(c)
    \/ \E c \in Conns : Register(c)
    \/ \E c \in Conns : \E text \in OpenFileTexts : RecvText(c, text)
    \/ \E c \in Conns : ToolAcquire(c)
    \/ \E c \in Conns : ToolRun(c)
    \/ \E c \in Conns : CmdSend(c)
    \/ \E c \in Conns : RegRead(c)
    \/ \E c \in Conns : Send(c)
    \/ \E c \in Conns : WriterSend(c)
    \/ Forward
    \/ HostInitSync
    \/ HostSyncFiles
    \/ HostSyncDiag
    \/ HostSyncSel
    \/ HostRender
    \/ HostDrainOne
    \/ HostDrainEnd
    \/ HostNoEvent
    \/ HostQuitKey
    \/ HostCtrlC
    \/ HostFrameEnd
    \/ HostReturn
    \/ ProcessExit

Spec == Init /\ [][Next]_vars

\* The network side alone: connections come and go and exchange protocol
\* frames that need neither the store nor the bridge.  The host has done
\* its initial sync and the server is running.
InitSynced ==
    SyncSelection(
        set_diagnostics(
            set_active_file(
                set_open_files(set_workspace(EmptyIdeState, RootPath, file_name(RootPath)),
                               SyncOpenFiles(InitApp)),
                InitApp.current_file_idx),
            SyncDiagnostics(InitApp.session)),
        InitApp)

InitConnSpec ==
    /\ InitConn /\ InitBridge
    /\ ide_state = InitSynced
    /\ committed = InitSynced
    /\ stateReaders = {}
    /\ stateWriter = FALSE
    /\ hostPc = "render"
    /\ app = InitApp
    /\ syncRet = "render"
    /\ drained = 0
    /\ cleanFrames = 0
    /\ srvPc = "running"
    /\ lockFile = TRUE
    /\ lockOps = <<>>
    /\ codec = NoCodec
    /\ start = NoStart
    /\ acceptErrs = 0
    /\ procAlive = TRUE

\* payloads of transport pings
PingData == { 1, 2 }

ConnTexts ==
    { Request("2.0", NumberId(1), "ping", NoParams) }

NextConn ==
    \/ AcceptError
    \/ \E c \in Conns : Accept(c)
    \/ \E c \in Conns : HandshakeFail(c)
    \/ \E c \in Conns : Register(c)
    \/ \E c \in Conns : \E text \in ConnTexts : RecvText(c, text)
    \/ \E c \in Conns : \E data \in PingData : RecvPing(c, data)
    \/ \E c \in Conns : RecvOther(c)
    \/ \E c \in Conns : RecvEnd(c)
    \/ \E c \in Conns : RegRead(c)
    \/ \E c \in Conns : Send(c)
    \/ \E c \in Conns : Remove(c)
    \/ \E c \in Conns : WriterSend(c)
    \/ \E c \in Conns : WriterFail(c)

SpecConn == InitConnSpec /\ [][NextConn]_vars


\* The store between the tool handlers and the host loop: the server is
\* running and the connections are registered (ids in the order of the
\* slots); the host is about to do its initial sync, and goes through its
\* frames without quitting.
InitStoreSpec ==
    /\ connPc = [c \in Conns |-> "recv"]
    /\ client_id = [c \in Conns |-> c]
    /\ out = [c \in Conns |-> NoMsg]
    /\ call = [c \in Conns |-> NoCall]
    /\ recvCount = [c \in Conns |-> 0]
    /\ clients = [c \in Conns |-> [id |-> c, tx |-> c]]
    /\ next_id = MaxConns + 1
    /\ regReaders = {}
    /\ regWaiters = <<>>
    /\ chan = [c \in Conns |-> <<>>]
    /\ chanOpen = [c \in Conns |-> TRUE]
    /\ socket = [c \in Conns |-> <<>>]
    /\ produced = [c \in Conns |-> <<>>]
    /\ lastFrame = [c \in Conns |-> NoFrame]
    /\ InitStore /\ InitBridge /\ InitHost
    /\ srvPc = "running"
    /\ lockFile = TRUE
    /\ lockOps = <<>>
    /\ codec = NoCodec
    /\ start = NoStart
    /\ acceptErrs = 0
    /\ procAlive = TRUE

StoreTexts ==
    { Request("2.0", NumberId(1), "tools/call",
              CallParams("getCurrentSelection", Arguments(Absent, Absent))),
      Request("2.0", NumberId(2), "tools/call",
              CallParams("openFile", Arguments(StrArg(DiffFiles[2]), Absent))) }

NextStore ==
    \/ \E c \in Conns : \E text \in StoreTexts : RecvText(c, text)
    \/ \E c \in Conns : ToolAcquire(c)
    \/ \E c \in Conns : ToolRun(c)
    \/ \E c \in Conns : CmdSend(c)
    \/ \E c \in Conns : RegRead(c)
    \/ \E c \in Conns : Send(c)
    \/ \E c \in Conns : WriterSend(c)
    \/ Forward
    \/ HostInitSync
    \/ HostSyncFiles
    \/ HostSyncDiag
    \/ HostSyncSel
    \/ HostRender
    \/ HostDrainOne
    \/ HostDrainEnd
    \/ HostNoEvent
    \/ \E a \in ModeTargets(app) : HostUserInput(a)
    \/ HostFrameEnd

SpecStore == InitStoreSpec /\ [][NextStore]_vars

\* The command path by itself: the connections call openFile again and
\* again, the forwarder passes the commands on and the host loop goes
\* through its frames, draining at most MAX_IDE_COMMANDS_PER_FRAME in each.
MaxCmds == 4

\* the peers have calls left to make
CommandsLeft == Len(cmdLog) + Cardinality({ c \in Conns : call[c].active }) < MaxCmds

OpenFileCall ==
    Request("2.0", NumberId(2), "tools/call",
            CallParams("openFile", Arguments(StrArg(DiffFiles[2]), Absent)))

\* ws_receiver.next() yields an openFile call
RecvCommand(c) == CommandsLeft /\ ReadText(c, OpenFileCall)

NextCmd ==
    \/ \E c \in Conns : RecvCommand(c)
    \/ \E c \in Conns : ToolAcquire(c)
    \/ \E c \in Conns : ToolRun(c)
    \/ \E c \in Conns : CmdSend(c)
    \/ \E c \in Conns : RegRead(c)
    \/ \E c \in Conns : Send(c)
    \/ \E c \in Conns : WriterSend(c)
    \/ Forward
    \/ HostInitSync
    \/ HostSyncFiles
    \/ HostSyncDiag
    \/ HostSyncSel
    \/ HostRender
    \/ HostDrainOne
    \/ HostDrainEnd
    \/ HostNoEvent

SpecCmd == InitStoreSpec /\ [][NextCmd]_vars

\* openFile from the call to the host model (SpecOpen): calls for a path
\* that two files contain, that one file contains and that none contains,
\* with and without a line; the host starts on either file, scrolled or not.
OpenTexts ==
    { Request("2.0", NumberId(1), "tools/call", CallParams("openFile", Arguments(StrArg(p), l))) :
        p \in { DiffFiles[1], DiffFiles[2], <<"z">> }, l \in { Absent, IntArg(2) } }

InitOpen ==
    /\ connPc = [c \in Conns |-> "recv"]
    /\ client_id = [c \in Conns |-> c]
    /\ out = [c \in Conns |-> NoMsg]
    /\ call = [c \in Conns |-> NoCall]
    /\ recvCount = [c \in Conns |-> 0]
    /\ clients = [c \in Conns |-> [id |-> c, tx |-> c]]
    /\ next_id = MaxConns + 1
    /\ regReaders = {}
    /\ regWaiters = <<>>
    /\ chan = [c \in Conns |-> <<>>]
    /\ chanOpen = [c \in Conns |-> TRUE]
    /\ socket = [c \in Conns |-> <<>>]
    /\ produced = [c \in Conns |-> <<>>]
    /\ lastFrame = [c \in Conns |-> NoFrame]
    /\ InitStore /\ InitBridge
    /\ hostPc = "init_sync"
    /\ app \in { [InitApp EXCEPT !.current_file_idx = i, !.scroll_offset = o] :
                   i \in 0..(Len(DiffFiles) - 1), o \in {0, 5} }
    /\ syncRet = "render"
    /\ drained = 0
    /\ cleanFrames = 0
    /\ srvPc = "running"
    /\ lockFile = TRUE
    /\ lockOps = <<>>
    /\ codec = NoCodec
    /\ start = NoStart
    /\ acceptErrs = 0
    /\ procAlive = TRUE

NextOpen ==
    \/ \E c \in Conns : \E text \in OpenTexts : RecvText(c, text)
    \/ \E c \in Conns : ToolAcquire(c)
    \/ \E c \in Conns : ToolRun(c)
    \/ \E c \in Conns : CmdSend(c)
    \/ \E c \in Conns : RegRead(c)
    \/ \E c \in Conns : Send(c)
    \/ \E c \in Conns : WriterSend(c)
    \/ Forward
    \/ HostInitSync
    \/ HostSyncFiles
    \/ HostSyncDiag
    \/ HostSyncSel
    \/ HostRender
    \/ HostDrainOne
    \/ HostDrainEnd
    \/ HostNoEvent
    \/ HostFrameEnd

SpecOpen == InitOpen /\ [][NextOpen]_vars


\* The protocol layer: one inbound message of any shape, on either of two
\* registered connections, against a snapshot the host has or has not yet
\* published; the frames after it are pings.  The host stands still: it is
\* about to do its initial sync, inside its loop, or has returned with a
\* command still in the async queue.
Ids == { None, NumberId(7), StringId("x") }

ProtoMethods ==
    { "initialize", "initialized", "ping", "tools/list", "tools/call",
      "notifications/cancelled", "foo/bar" }

NoArguments == Arguments(Absent, Absent)

ProtoParams ==
    { NoParams, JunkParams, InitParams, CallParams("getOpenEditors", NoArguments) }

ToolCalls ==
    { CallParams(n, NoArguments) :
        n \in { "getCurrentSelection", "getOpenEditors", "getWorkspaceFolders",
                "getDiagnostics", "openFile", "nope" } }
    \cup { CallParams("getDiagnostics", Arguments(StrArg(DiffFiles[1]), Absent)) }
    \cup { CallParams("openFile", Arguments(f, l)) :
             f \in { StrArg(DiffFiles[2]), StrArg(<<"z">>), OtherArg },
             l \in { Absent, IntArg(42), IntArg(-1), WideArg(1, 5), HugeArg, OtherArg } }

ProtoTexts ==
    { Malformed }
    \cup { Request("1.0", i, m, NoParams) : i \in Ids, m \in { "ping", "initialized" } }
    \cup { Request("1.0", i, "tools/call",
                    CallParams("openFile", Arguments(StrArg(DiffFiles[2]), Absent))) :
               i \in Ids }
    \cup { Request("2.0", i, m, p) : i \in Ids, m \in ProtoMethods, p \in ProtoParams }
    \cup { Request("2.0", i, "tools/call", p) : i \in Ids, p \in ToolCalls }

\* host models: fresh, in visual-select mode with an anchor, with comments
ProtoApps ==
    { InitApp,
      [InitApp EXCEPT !.input_mode = "VisualSelect", !.visual_anchor = Some(3)],
      [InitApp EXCEPT !.session = CHOOSE s \in Sessions : s # <<>>] }

\* the command an earlier openFile call left in the async queue
QueuedCommand == OpenFile(DiffFiles[1], None, 1)

InitProto ==
    /\ connPc = [c \in Conns |-> "recv"]
    /\ client_id = [c \in Conns |-> c]
    /\ out = [c \in Conns |-> NoMsg]
    /\ call = [c \in Conns |-> NoCall]
    /\ recvCount = [c \in Conns |-> 0]
    /\ clients = [c \in Conns |-> [id |-> c, tx |-> c]]
    /\ next_id = MaxConns + 1
    /\ regReaders = {}
    /\ regWaiters = <<>>
    /\ chan = [c \in Conns |-> <<>>]
    /\ chanOpen = [c \in Conns |-> TRUE]
    /\ socket = [c \in Conns |-> <<>>]
    /\ produced = [c \in Conns |-> <<>>]
    /\ lastFrame = [c \in Conns |-> NoFrame]
    /\ app \in ProtoApps
    /\ hostPc \in { "init_sync", "render", "exited" }
    /\ ide_state = IF hostPc = "init_sync" THEN EmptyIdeState
                   ELSE FullSync(EmptyIdeState, app)
    /\ committed = ide_state
    /\ stateReaders = {}
    /\ stateWriter = FALSE
    /\ syncRet = "render"
    /\ drained = 0
    /\ cleanFrames = 0
    /\ async_cmd = IF hostPc = "exited" THEN <<QueuedCommand>> ELSE <<>>
    /\ cmdLog = async_cmd
    /\ cmd_chan = <<>>
    /\ handled = <<>>
    /\ fwdPc = "running"
    /\ srvPc = "running"
    /\ lockFile = TRUE
    /\ lockOps = <<>>
    /\ codec = NoCodec
    /\ start = NoStart
    /\ acceptErrs = 0
    /\ procAlive = TRUE

FirstFrame == \A c \in Conns : recvCount[c] = 0

\* the texts that follow the first one: a ping or a request for the listing
LaterTexts ==
    ConnTexts \cup { Request("2.0", NumberId(1), "tools/list", NoParams) }

NextProto ==
    \/ \E c \in Conns : \E text \in (IF FirstFrame THEN ProtoTexts ELSE LaterTexts) :
          RecvText(c, text)
    \/ \E c \in Conns : ToolAcquire(c)
    \/ \E c \in Conns : ToolRun(c)
    \/ \E c \in Conns : CmdSend(c)
    \/ \E c \in Conns : RegRead(c)
    \/ \E c \in Conns : Send(c)
    \/ \E c \in Conns : WriterSend(c)
    \/ Forward

SpecProto == InitProto /\ [][NextProto]_vars

\* Exchanges one after another (SpecExchange): the same few requests arrive
\* on either connection, as a connection's first message or after others.
MaxExchanges == 3

ExchangeTexts ==
    { Request("2.0", NumberId(1), "initialize", InitParams),
      Request("2.0", NumberId(1), "tools/list", NoParams),
      Request("2.0", NumberId(1), "tools/call", CallParams("getOpenEditors", NoArguments)),
      Request("2.0", NumberId(1), "tools/call",
              CallParams("openFile", Arguments(StrArg(DiffFiles[2]), Absent))) }

\* ws_receiver.next() yields one of the requests
RecvExchange(c, text) ==
    /\ SumTo(recvCount, MaxConns) < MaxExchanges
    /\ ReadText(c, text)

NextExchange ==
    \/ \E c \in Conns : \E text \in ExchangeTexts : RecvExchange(c, text)
    \/ \E c \in Conns : ToolAcquire(c)
    \/ \E c \in Conns : ToolRun(c)
    \/ \E c \in Conns : CmdSend(c)
    \/ \E c \in Conns : RegRead(c)
    \/ \E c \in Conns : Send(c)
    \/ \E c \in Conns : WriterSend(c)
    \/ Forward

SpecExchange == InitProto /\ [][NextExchange]_vars

\* The whole program with its scheduling: the forwarder task is polled by
\* the runtime whenever a command is queued, and the main thread goes on
\* with its loop as long as the user does not quit.
HostRuns ==
    /\ WF_vars(HostInitSync) /\ WF_vars(HostSyncFiles) /\ WF_vars(HostSyncDiag)
    /\ WF_vars(HostSyncSel) /\ WF_vars(HostRender) /\ WF_vars(HostDrainOne)
    /\ WF_vars(HostDrainEnd) /\ WF_vars(HostNoEvent) /\ WF_vars(HostFrameEnd)

SpecLive == Init /\ [][Next]_vars /\ WF_vars(Forward) /\ HostRuns

(***************************************************************************)
(* The discovery record by itself (lockfile.rs:56-73, SpecLock): a record  *)
(* whose file has been created, on which remove() is called any number of  *)
(* times and which is dropped in the end.  The file system may refuse a    *)
(* delete.                                                                 *)
(***************************************************************************)
\* the most calls made on one record
MaxLockOps == 6

\* lock_remove with a defect: remove_file is called without asking whether
\* the file exists
lock_remove_unchecked(present, permitted) ==
    IF present /\ permitted
    THEN [file |-> FALSE, result |-> "Ok"]
    ELSE [file |-> present, result |-> "Err"]

\* LockFile::remove (lockfile.rs:58-65): whether the file exists afterwards,
\* and the Result
lock_remove(present, permitted) ==
    IF present
    THEN IF permitted
         THEN [file |-> FALSE, result |-> "Ok"]
         ELSE [file |-> TRUE, result |-> "Err"]
    ELSE [file |-> FALSE, result |-> "Ok"]

\* Drop for LockFile (lockfile.rs:68-73): the error of remove_file is ignored
lock_drop(present, permitted) ==
    [file |-> present /\ ~permitted, result |-> "Ok"]

\* the record has been dropped
LockDropped == lockOps # <<>> /\ lockOps[Len(lockOps)].op = "drop"

LockRemove(permitted) ==
    /\ ~LockDropped
    /\ Len(lockOps) < MaxLockOps
    /\ LET r == lock_remove(lockFile, permitted)
       IN /\ lockFile' = r.file
          /\ lockOps' = Append(lockOps, [op |-> "remove", before |-> lockFile,
                                         permitted |-> permitted, result |-> r.result])
    /\ UNCHANGED <<srvPc, procAlive, codec, start, acceptErrs>>
    /\ UNCHANGED <<connVars, storeVars, bridgeVars, hostVars>>

LockDrop(permitted) ==
    /\ ~LockDropped
    /\ LET r == lock_drop(lockFile, permitted)
       IN /\ lockFile' = r.file
          /\ lockOps' = Append(lockOps, [op |-> "drop", before |-> lockFile,
                                         permitted |-> permitted, result |-> r.result])
    /\ UNCHANGED <<srvPc, procAlive, codec, start, acceptErrs>>
    /\ UNCHANGED <<connVars, storeVars, bridgeVars, hostVars>>

\* LockFile::create has returned the record: the file exists
InitLock ==
    /\ InitConn /\ InitBridge /\ InitStore /\ InitHost
    /\ srvPc = "running"
    /\ lockFile = TRUE
    /\ lockOps = <<>>
    /\ codec = NoCodec
    /\ start = NoStart
    /\ acceptErrs = 0
    /\ procAlive = TRUE

NextLock ==
    \/ \E permitted \in BOOLEAN : LockRemove(permitted)
    \/ \E permitted \in BOOLEAN : LockDrop(permitted)

SpecLock == InitLock /\ [][NextLock]_vars

(***************************************************************************)
(* IdeServer::start step by step (server.rs:82-112, lockfile.rs:21-48,     *)
(* SpecStart): bind, LockFile::create, spawn of the accept loop.  The      *)
(* operating system picks the port; the bind and each file-system call of  *)
(* create may fail.                                                        *)
(***************************************************************************)
\* the ephemeral ports the operating system picks from, scaled down
MaxPort == 24
Ports == 1..MaxPort

\* the file <home>/.claude/ide/<port>.lock with the transport address in its
\* content; a content that was not written completely has none
LockFileContent(port) == [name |-> port, transport |-> Some(port)]
TornFile(port) == [name |-> port, transport |-> None]

\* how LockFile::create can end: written, no home directory, create_dir_all
\* fails, fs::write fails before the file is created, fs::write fails after
\* it has created the file
CreateOutcomes == { "ok", "nohome", "nodir", "nofile", "torn" }

\* TcpListener::bind("127.0.0.1:0") and local_addr
StartBind(r) ==
    /\ start.pc = "new"
    /\ IF r \in Ports
       THEN start' = [start EXCEPT !.pc = "bound", !.port = r, !.listening = TRUE]
       ELSE start' = [start EXCEPT !.pc = "failed", !.ret = Some([err |-> "Bind"])]
    /\ UNCHANGED <<srvPc, lockFile, lockOps, codec, acceptErrs, procAlive>>
    /\ UNCHANGED <<connVars, storeVars, bridgeVars, hostVars>>

\* LockFile::create(self.port, workspace_path); on an error start returns
\* and the listener is dropped
StartCreate(o) ==
    /\ start.pc = "bound"
    /\ IF o = "ok"
       THEN /\ start' = [start EXCEPT !.pc = "written",
                                      !.file = Some(LockFileContent(start.port))]
            /\ lockFile' = TRUE
       ELSE /\ start' = [start EXCEPT !.pc = "failed", !.listening = FALSE,
                                      !.file = IF o = "torn"
                                               THEN Some(TornFile(start.port))
                                               ELSE None,
                                      !.ret = Some([err |-> "LockFile"])]
            /\ lockFile' = (o = "torn")
    /\ UNCHANGED <<srvPc, lockOps, codec, acceptErrs, procAlive>>
    /\ UNCHANGED <<connVars, storeVars, bridgeVars, hostVars>>

\* StartSpawn with a defect: the accept loop is spawned although create failed
StartSpawnAlways ==
    /\ start.pc \in {"written", "failed"}
    /\ ~start.accepting
    /\ start' = [start EXCEPT !.pc = "started", !.accepting = TRUE,
                              !.ret = Some([ok |-> start.port])]
    /\ srvPc' = "running"
    /\ UNCHANGED <<lockFile, lockOps, codec, acceptErrs, procAlive>>
    /\ UNCHANGED <<connVars, storeVars, bridgeVars, hostVars>>

\* tokio::spawn(accept_loop(listener, ..)); Ok(self.port)
StartSpawn ==
    /\ start.pc = "written"
    /\ start' = [start EXCEPT !.pc = "started", !.accepting = TRUE,
                              !.ret = Some([ok |-> start.port])]
    /\ srvPc' = "running"
    /\ UNCHANGED <<lockFile, lockOps, codec, acceptErrs, procAlive>>
    /\ UNCHANGED <<connVars, storeVars, bridgeVars, hostVars>>

InitStart ==
    /\ InitConn /\ InitBridge /\ InitStore /\ InitHost
    /\ srvPc = "init"
    /\ lockFile = FALSE
    /\ lockOps = <<>>
    /\ codec = NoCodec
    /\ start = NoStart
    /\ acceptErrs = 0
    /\ procAlive = TRUE

NextStart ==
    \/ \E r \in Ports \cup {0} : StartBind(r)
    \/ \E o \in CreateOutcomes : StartCreate(o)
    \/ StartSpawn

SpecStart == InitStart /\ [][NextStart]_vars

(***************************************************************************)
(* The snapshot's file list and active index by themselves (state.rs:     *)
(* 123-147, main.rs:491-492, SpecActive): set_open_files with any list,    *)
(* set_active_file with any index, within the list or past its end, and    *)
(* the two calls the sync makes.                                           *)
(***************************************************************************)
\* the longest file list
MaxFiles == 4

OpenFileInfo(is_active) ==
    [file_path |-> <<"f">>, language_id |-> "rust", is_dirty |-> TRUE,
     is_active |-> is_active, status |-> "Modified", reviewed |-> FALSE]

FileLists ==
    UNION { [1..n -> { OpenFileInfo(b) : b \in BOOLEAN }] : n \in 0..MaxFiles }

\* state.set_open_files(files)
SetOpenFiles(files) ==
    /\ ide_state' = set_open_files(ide_state, files)
    /\ UNCHANGED <<stateReaders, stateWriter, committed>>
    /\ UNCHANGED <<connVars, bridgeVars, hostVars, lifeVars>>

\* state.set_active_file(index)
SetActiveFile(index) ==
    /\ ide_state' = set_active_file(ide_state, index)
    /\ UNCHANGED <<stateReaders, stateWriter, committed>>
    /\ UNCHANGED <<connVars, bridgeVars, hostVars, lifeVars>>

\* sync_app_to_ide_state, main.rs:491-492: the list built from the diff
\* files is stored, then the host's current file index
SyncFiles(idx) ==
    /\ ide_state' = set_active_file(
                        set_open_files(ide_state,
                                       SyncOpenFiles([InitApp EXCEPT !.current_file_idx = idx])),
                        idx)
    /\ UNCHANGED <<stateReaders, stateWriter, committed>>
    /\ UNCHANGED <<connVars, bridgeVars, hostVars, lifeVars>>

InitActive ==
    /\ InitConn /\ InitBridge /\ InitStore /\ InitHost
    /\ srvPc = "running"
    /\ lockFile = TRUE
    /\ lockOps = <<>>
    /\ codec = NoCodec
    /\ start = NoStart
    /\ acceptErrs = 0
    /\ procAlive = TRUE

NextActive ==
    \/ \E files \in FileLists : SetOpenFiles(files)
    \/ \E index \in 0..MaxFiles : SetActiveFile(index)
    \/ \E idx \in 0..(Len(DiffFiles) - 1) : SyncFiles(idx)

SpecActive == InitActive /\ [][NextActive]_vars

(***************************************************************************)
(* Envelopes through the codec (SpecCodec): every shape of request,        *)
(* response and notification, with each optional field absent or holding a *)
(* JSON value, is encoded and decoded again.                               *)
(***************************************************************************)
\* the values an optional JSON field can hold
OptionalValues == { None, Some(EmptyObject), Some(JNumber(5)), Some(JNull) }
OptionalIds == { None, Some(NumberId(7)), Some(StringId("x")) }
OptionalErrors ==
    { None } \cup { Some([code |-> METHOD_NOT_FOUND, message |-> "m", data |-> v]) :
                     v \in OptionalValues }

Envelopes ==
    { [kind |-> "request", jsonrpc |-> "2.0", id |-> i, method |-> "ping", params |-> v] :
        i \in OptionalIds, v \in OptionalValues }
    \cup { [kind |-> "response", jsonrpc |-> "2.0", id |-> i, result |-> r, error |-> e] :
             i \in OptionalIds, r \in OptionalValues, e \in OptionalErrors }
    \cup { [kind |-> "notification", jsonrpc |-> "2.0", method |-> "initialized",
            params |-> v] : v \in OptionalValues }

InitCodec ==
    /\ InitConn /\ InitBridge /\ InitStore /\ InitHost
    /\ srvPc = "running"
    /\ lockFile = TRUE
    /\ lockOps = <<>>
    /\ start = NoStart
    /\ acceptErrs = 0
    /\ codec \in { [stage |-> "made", env |-> e, wire |-> Missing, back |-> Missing] :
                      e \in Envelopes }
    /\ procAlive = TRUE

NextCodec == Encode \/ Decode

SpecCodec == InitCodec /\ [][NextCodec]_vars

\* The network side with its scheduling: the runtime polls every task of
\* the server that can go on.  Whether a peer reads what is written to its
\* socket is up to the peer, so the writers are not assumed to go on.
ConnRuns ==
    \A c \in Conns :
        /\ WF_vars(Register(c)) /\ WF_vars(RegRead(c))
        /\ WF_vars(Send(c)) /\ WF_vars(Remove(c))

SpecConnLive == InitConnSpec /\ [][NextConn]_vars /\ ConnRuns

(***************************************************************************)
(* getDiagnostics from review comment to tool result (SpecDiag).  The host  *)
(* has published a session of review comments and stands still; one        *)
(* getDiagnostics call arrives, with or without a path filter.             *)
(***************************************************************************)
\* the longest list of comments at one place of a review
MaxComments == 2

\* model::CommentType, as matched in comment_type_to_severity
CommentTypes == { "Issue", "Suggestion", "Note", "Praise" }

\* the lists of at most n comments, of every type
CommentLists(n) ==
    UNION { [1..k -> { Comment("c", t, None) : t \in CommentTypes }] : k \in 0..n }

\* app.session.files: comments on the first file, and comments on line 7 of
\* the second
DiagSessions ==
    { << FileReview(DiffFiles[1], fc, <<>>),
         FileReview(DiffFiles[2], <<>>, << [line |-> 7, comments |-> lc] >>) >> :
        fc \in CommentLists(MaxComments), lc \in CommentLists(1) }

DiagTexts ==
    { Request("2.0", NumberId(7), "tools/call",
              CallParams("getDiagnostics", Arguments(f, Absent))) :
        f \in { Absent, StrArg(DiffFiles[1]), StrArg(DiffFiles[2]), StrArg(<<"z">>) } }

InitDiag ==
    /\ connPc = [c \in Conns |-> "recv"]
    /\ client_id = [c \in Conns |-> c]
    /\ out = [c \in Conns |-> NoMsg]
    /\ call = [c \in Conns |-> NoCall]
    /\ recvCount = [c \in Conns |-> 0]
    /\ clients = [c \in Conns |-> [id |-> c, tx |-> c]]
    /\ next_id = MaxConns + 1
    /\ regReaders = {}
    /\ regWaiters = <<>>
    /\ chan = [c \in Conns |-> <<>>]
    /\ chanOpen = [c \in Conns |-> TRUE]
    /\ socket = [c \in Conns |-> <<>>]
    /\ produced = [c \in Conns |-> <<>>]
    /\ lastFrame = [c \in Conns |-> NoFrame]
    /\ app \in { [InitApp EXCEPT !.session = s] : s \in DiagSessions }
    /\ hostPc = "render"
    /\ ide_state = FullSync(EmptyIdeState, app)
    /\ committed = ide_state
    /\ stateReaders = {}
    /\ stateWriter = FALSE
    /\ syncRet = "render"
    /\ drained = 0
    /\ cleanFrames = 0
    /\ async_cmd = <<>>
    /\ cmdLog = <<>>
    /\ cmd_chan = <<>>
    /\ handled = <<>>
    /\ fwdPc = "running"
    /\ srvPc = "running"
    /\ lockFile = TRUE
    /\ lockOps = <<>>
    /\ codec = NoCodec
    /\ start = NoStart
    /\ acceptErrs = 0
    /\ procAlive = TRUE

NextDiag ==
    \/ \E c \in Conns : \E text \in (IF FirstFrame THEN DiagTexts ELSE ConnTexts) :
          RecvText(c, text)
    \/ \E c \in Conns : ToolAcquire(c)
    \/ \E c \in Conns : ToolRun(c)
    \/ \E c \in Conns : RegRead(c)
    \/ \E c \in Conns : Send(c)
    \/ \E c \in Conns : WriterSend(c)

SpecDiag == InitDiag /\ [][NextDiag]_vars

(***************************************************************************)
(* Claims about the network side (SpecConn).                               *)
(***************************************************************************)
\* the reader of connection a holds the registry's read guard and is
\* suspended in client.tx.send because its outbound queue is full
Stalled(a) ==
    /\ connPc[a] = "send"
    /\ TargetOf(a) # 0
    /\ chanOpen[TargetOf(a)]
    /\ Len(chan[TargetOf(a)]) = ChannelCap

\* C2: back-pressure on one connection cannot affect another.  While the
\* reader of a connection is suspended on its own full outbound queue, no
\* other task (a reader that has a response to enqueue, a connection that
\* registers or removes itself) is held back at the registry by the guard
\* of the suspended reader.
C2_BackPressureIsLocal ==
    \A a \in Conns :
        (Stalled(a) /\ a \in regReaders) =>
            (regWaiters = <<>> \/ Head(regWaiters).mode = "read")

\* the messages that have reached the queue of connection c, oldest first
Delivered(c) == socket[c] \o chan[c]

\* the last frame of b was a ping request received after a peer had closed,
\* the reader has finished with it and the connection's writer is alive
PingAfterClose(b) ==
    /\ connPc[b] = "recv"
    /\ chanOpen[b]
    /\ lastFrame[b].kind = "text"
    /\ lastFrame[b].peerClosed
    /\ lastFrame[b].text.method = "ping"

\* C3: with two connections open, after one of them is closed a ping on the
\* other is answered on the other's queue by a success response with the
\* request's id and an empty result.
C3_PingAfterPeerClosed ==
    \A b \in Conns :
        PingAfterClose(b) =>
            /\ Delivered(b) # <<>>
            /\ LET m == Delivered(b)[Len(Delivered(b))]
               IN /\ m.type = "Text"
                  /\ m.seq = recvCount[b]
                  /\ m.body = [jsonrpc |-> "2.0", id |-> lastFrame[b].text.id,
                               result |-> Some(EmptyObject), error |-> None]

\* C3 witness: b registered before a, a has been removed, and b's ping after
\* that has been answered
C3_Witness ==
    \E a, b \in Conns :
        /\ a # b
        /\ client_id[b] # 0
        /\ client_id[b] < client_id[a]
        /\ connPc[a] = "done"
        /\ PingAfterClose(b)
        /\ socket[b] # <<>>

\* the message the reader of c still has to enqueue
Pending(c) == IF out[c] = NoMsg THEN <<>> ELSE <<out[c]>>

C9_OwnQueueOnly ==
    \A c \in Conns :
        \A i \in 1..Len(Delivered(c)) : Delivered(c)[i].origin = c

\* C9 witness: a connection has been answered after another one, registered
\* before it, was removed
C9_Witness ==
    \E a, b \in Conns :
        /\ a # b
        /\ client_id[a] # 0
        /\ client_id[a] < client_id[b]
        /\ connPc[a] = "done"
        /\ socket[b] # <<>>

(***************************************************************************)
(* Claims about the store and the host loop (SpecStore, Spec).             *)
(***************************************************************************)
\* C4: the snapshot is never observed half-written.  While a tool handler
\* holds read access the host is not inside a sync, and the snapshot the
\* handler reads is the one the last completed sync left (or the initial
\* one): all fields of one sync become visible at once.
C4_NeverHalfWritten ==
    stateReaders # {} =>
        /\ ~stateWriter
        /\ hostPc \notin SyncPcs
        /\ ide_state = committed

\* C4 witness: a handler reads a snapshot that a sync has written, and the
\* host model has changed since the first sync
C4_Witness ==
    /\ stateReaders # {}
    /\ ide_state.workspace_path # None
    /\ ide_state.selection # None

\* C5: the host loop never waits for the store.  A step the host takes
\* while a tool handler holds read access leaves every field of the
\* snapshot unchanged, takes no guard and does not enter the sync; and the
\* host's initial sync can always take its step.
C5_HostNeverWaits ==
    /\ [](hostPc = "init_sync" => ENABLED HostInitSync)
    /\ [][ (stateReaders # {} /\ hostCore' # hostCore) =>
              /\ ide_state' = ide_state
              /\ stateWriter' = stateWriter
              /\ hostPc' \notin SyncPcs ]_vars

\* C5 witness: a sync attempt was skipped; the host has gone on (it is not
\* inside a sync) while a handler still holds read access and the snapshot
\* is behind the host model
C5_Witness ==
    /\ stateReaders # {}
    /\ hostPc \notin SyncPcs \cup {"init_sync"}
    /\ ide_state # FullSync(ide_state, app)

\* C6: the snapshot is re-published once per frame.  After a first sync
\* has succeeded and a command has been applied, no two frames in a row
\* end with the store free (no handler held or took read access and the
\* host model did not change) and leave the snapshot different from what a
\* sync of the host model gives.
C6_FreshAfterAFrame ==
    ( /\ cleanFrames = 2
      /\ hostPc \notin SyncPcs
      /\ committed # EmptyIdeState
      /\ handled # <<>> ) => ide_state = FullSync(ide_state, app)

\* C7: every successful sync overwrites the whole snapshot.  On the step
\* that completes a sync every field has the value derived from the host
\* model, the selection included: none when the host model gives none.
C7_SyncOverwritesAll ==
    [][ (hostPc = "sync_sel" /\ hostPc' # "sync_sel") =>
            ide_state' = FullSync(EmptyIdeState, app) ]_vars

\* C1: after the host loop has ended by the user's quit with the server
\* running, the lock file does not exist once the process has terminated.
C1_LockFileRemoved ==
    (~procAlive /\ srvPc = "running") => ~lockFile

\* C10: commands reach the host in the order the openFile calls enqueued
\* them, through both queues.  What the host has handled is a prefix of the
\* commands in enqueue order, and while the host has not returned, the
\* handled commands followed by the host-side queue and the async queue are
\* exactly the commands enqueued, in order.
C10_CommandsFifo ==
    /\ IsPrefix(handled, cmdLog)
    /\ hostPc # "exited" => handled \o cmd_chan \o async_cmd = cmdLog

\* C10 witness: two commands from two connections have been handled
C10_Witness ==
    /\ Len(handled) >= 2
    /\ \E a, b \in Conns : a # b /\ recvCount[a] >= 1 /\ recvCount[b] >= 1

\* C11: a frame handles at most MAX_IDE_COMMANDS_PER_FRAME commands.  Each
\* command handled is the head of the host-side queue and counts against
\* the frame's cap; when the drain of a frame ends, what is still queued
\* stays queued in its order, and nothing leaves that queue unhandled.
C11_PerFrameCap ==
    [][ /\ drained' <= MaxPerFrame
        /\ handled' # handled =>
              /\ cmd_chan # <<>>
              /\ handled' = Append(handled, Head(cmd_chan))
              /\ cmd_chan' = Tail(cmd_chan)
              /\ drained' = drained + 1
        /\ handled' = handled => IsPrefix(cmd_chan, cmd_chan')
        /\ (hostPc = "drain" /\ hostPc' = "events") => cmd_chan' = cmd_chan ]_vars

\* C11 witness: the frame's drain has ended at the cap with a command
\* still pending in the host-side queue
C11_Witness ==
    /\ hostPc = "events"
    /\ drained = MaxPerFrame
    /\ handled # <<>>
    /\ cmd_chan # <<>>

\* how often command cmd occurs in queue or log q
Count(q, cmd) == Cardinality({ i \in 1..Len(q) : q[i] = cmd })

\* the host loop has left its frames
HostLeft == hostPc \in {"quit", "exited"}

\* C12: a command openFile reported as sent is consumed exactly once while
\* the host loop runs its frames.  No command is handled twice; while the
\* host loop runs, every command sent is either handled or still in the
\* bridge, once; as long as the user does not quit, the n-th command sent
\* is eventually handled; and once the host loop has been left no command
\* is handled any more.
C12_ConsumedOnce ==
    /\ [](\A i \in 1..Len(cmdLog) : Count(handled, cmdLog[i]) <= 1)
    /\ [](~HostLeft =>
            \A i \in 1..Len(cmdLog) :
                Count(handled, cmdLog[i]) + Count(cmd_chan, cmdLog[i])
                    + Count(async_cmd, cmdLog[i]) = 1)
    /\ [][HostLeft => handled' = handled]_vars
    /\ \A n \in 1..MaxFrames :
          (Len(cmdLog) >= n) ~> (Len(handled) >= n \/ app.should_quit)

\* C12 witness: the host loop has been left with one command handled and
\* another one still in the bridge
C12_Witness ==
    /\ hostPc = "exited"
    /\ handled # <<>>
    /\ Len(cmdLog) > Len(handled)

(***************************************************************************)
(* Claims about the protocol layer (SpecProto).                            *)
(***************************************************************************)
\* the last frame of connection c was a text message
GotText(c) == lastFrame[c].kind = "text"
LastText(c) == lastFrame[c].text

\* a decoded envelope with the protocol tag "2.0"
ValidEnvelope(text) == text.wf /\ text.jsonrpc = "2.0"

\* the reader of c is through with the dispatch of its last frame
Dispatched(c) == GotText(c) /\ connPc[c] \notin {"tool", "toolrun", "cmdsend"}

\* the messages produced for the last frame of c
ResponsesTo(c) == SelectSeq(produced[c], LAMBDA m : m.seq = recvCount[c])

\* this step is the arrival of a text message on connection c
Arrives(c) == recvCount'[c] # recvCount[c] /\ lastFrame'[c].kind = "text"

\* C13: no response is ever emitted for a notification.  For a valid
\* envelope without id, whatever its method, nothing is produced for the
\* connection's outbound queue.
C13_NoResponseToNotification ==
    \A c \in Conns :
        (GotText(c) /\ ValidEnvelope(LastText(c)) /\ LastText(c).id = None)
            => ResponsesTo(c) = <<>>

QuietMethods == { "initialized", "notifications/cancelled" }

\* C14: `initialized` and `notifications/cancelled` produce no response,
\* for every id and every params value, and change neither the snapshot nor
\* the command queues: the reader goes straight back to reading.
C14_QuietMethods ==
    /\ [](\A c \in Conns :
            (GotText(c) /\ ValidEnvelope(LastText(c)) /\ LastText(c).method \in QuietMethods)
                => (ResponsesTo(c) = <<>> /\ Dispatched(c)))
    /\ [][ \A c \in Conns :
             ( /\ Arrives(c)
               /\ ValidEnvelope(lastFrame'[c].text)
               /\ lastFrame'[c].text.method \in QuietMethods )
             => /\ connPc'[c] = "recv"
                /\ out' = out /\ produced' = produced /\ chan' = chan
                /\ ide_state' = ide_state
                /\ async_cmd' = async_cmd /\ cmd_chan' = cmd_chan /\ cmdLog' = cmdLog ]_vars

\* C14 witness: `notifications/cancelled` with an id and with params has
\* been dispatched
C14_Witness ==
    \E c \in Conns :
        /\ GotText(c) /\ ValidEnvelope(LastText(c))
        /\ LastText(c).method = "notifications/cancelled"
        /\ LastText(c).id = NumberId(7)
        /\ LastText(c).params = JunkParams
        /\ connPc[c] = "recv"

\* the one response produced for the last frame of c
Reply(c) == ResponsesTo(c)[1].body

KnownMethods ==
    { "initialize", "initialized", "ping", "tools/list", "tools/call",
      "notifications/cancelled" }

\* this step leaves the store and the command path as they were
BridgeKept ==
    /\ ide_state' = ide_state /\ stateReaders' = stateReaders
    /\ async_cmd' = async_cmd /\ cmd_chan' = cmd_chan /\ cmdLog' = cmdLog

\* C15: a valid envelope whose method is none of the six known ones is
\* answered with exactly one error response, code -32601, carrying the
\* request's id, and nothing is put on the command path.
C15_UnknownMethod ==
    /\ [](\A c \in Conns :
            (GotText(c) /\ ValidEnvelope(LastText(c)) /\ LastText(c).method \notin KnownMethods)
                => /\ Len(ResponsesTo(c)) = 1
                   /\ Dispatched(c)
                   /\ Reply(c).result = None
                   /\ Reply(c).error.t = "Some"
                   /\ Reply(c).error.v.code = -32601
                   /\ Reply(c).id = LastText(c).id)
    /\ [][ \A c \in Conns :
             ( /\ Arrives(c)
               /\ ValidEnvelope(lastFrame'[c].text)
               /\ lastFrame'[c].text.method \notin KnownMethods )
             => (BridgeKept /\ connPc'[c] = "regread") ]_vars

\* C15 witness: an unknown method with a string id has been answered and
\* the answer has reached the socket
C15_Witness ==
    \E c \in Conns :
        /\ GotText(c) /\ ValidEnvelope(LastText(c))
        /\ LastText(c).method = "foo/bar"
        /\ LastText(c).id = StringId("x")
        /\ Len(socket[c]) = 1
        /\ socket[c][1].body.id = StringId("x")

\* the last text of c is a tools/call or an initialize whose params are
\* missing or do not parse as the method's params type
BadParams(text) ==
    /\ ValidEnvelope(text)
    /\ \/ text.method = "tools/call" /\ text.params.p # "call"
       \/ text.method = "initialize" /\ text.params.p # "initialize"

\* C16: tools/call or initialize with missing or unparseable params is
\* answered with exactly one protocol error, code -32602, never with a
\* result; no tool is entered, and the store and the command path are
\* left alone.
C16_InvalidParams ==
    /\ [](\A c \in Conns :
            (GotText(c) /\ BadParams(LastText(c)))
                => /\ Len(ResponsesTo(c)) = 1
                   /\ Dispatched(c)
                   /\ Reply(c).result = None
                   /\ Reply(c).error.t = "Some"
                   /\ Reply(c).error.v.code = -32602
                   /\ Reply(c).id = LastText(c).id
                   /\ ~call[c].active)
    /\ [][ \A c \in Conns :
             (Arrives(c) /\ BadParams(lastFrame'[c].text))
                => (BridgeKept /\ connPc'[c] = "regread" /\ call' = call) ]_vars

\* C16 witness: a tools/call whose params have another shape has been
\* answered, and the error has reached the socket
C16_Witness ==
    \E c \in Conns :
        /\ GotText(c) /\ ValidEnvelope(LastText(c))
        /\ LastText(c).method = "tools/call" /\ LastText(c).params = JunkParams
        /\ LastText(c).id = NumberId(7)
        /\ Len(socket[c]) = 1
        /\ socket[c][1].body.error.t = "Some"

\* the last text of c is a tools/call whose params parse
ToolCall(c) == GotText(c) /\ EntersTool(LastText(c))

\* the tool-level result carried by the response to the last frame of c
ToolResult(c) == Reply(c).result.v

\* C17: a tools/call with well-formed params ends in exactly one response,
\* and that response is a protocol success (a result, no error) with the
\* request's id, for every tool name and every arguments value.
C17_ToolCallSucceeds ==
    \A c \in Conns :
        ToolCall(c) =>
            /\ Dispatched(c) <=> Len(ResponsesTo(c)) = 1
            /\ ~Dispatched(c) => ResponsesTo(c) = <<>>
            /\ Dispatched(c) =>
                  /\ Reply(c).result.t = "Some"
                  /\ Reply(c).error = None
                  /\ Reply(c).id = LastText(c).id
                  /\ ToolResult(c).json = "ToolsCallResult"

\* C17 witness: a call of a tool that does not exist has been answered
\* with a protocol success
C17_Witness ==
    \E c \in Conns :
        /\ ToolCall(c) /\ Dispatched(c)
        /\ LastText(c).params.name = "nope"
        /\ Reply(c).result.t = "Some"
        /\ ToolResult(c).isError

ToolNames ==
    { "getCurrentSelection", "getOpenEditors", "getWorkspaceFolders",
      "getDiagnostics", "openFile" }

\* the arguments of the call in the last text of c
CallArgs(c) == LastText(c).params.arguments
CallName(c) == LastText(c).params.name

\* the openFile call of c put its command on the command queue
Enqueued(c) ==
    \E i \in 1..Len(cmdLog) : cmdLog[i].path = CallArgs(c).filePath.s

\* C18: the tool-level isError flag of an answered tools/call is true in
\* exactly three cases: the tool name is unknown, openFile has no string
\* filePath, or openFile could not put its command on the queue.  It is
\* false otherwise: getCurrentSelection without a selection answers
\* "No selection", and the read-only tools answer an empty snapshot.
C18_IsErrorCases ==
    \A c \in Conns :
        (ToolCall(c) /\ Dispatched(c)) =>
            /\ ToolResult(c).isError <=>
                  \/ CallName(c) \notin ToolNames
                  \/ CallName(c) = "openFile" /\ CallArgs(c).filePath.a # "str"
                  \/ CallName(c) = "openFile" /\ CallArgs(c).filePath.a = "str"
                                              /\ ~Enqueued(c)
            /\ (CallName(c) = "getCurrentSelection" /\ ide_state.selection = None)
                  => ToolResult(c) = ToolsCallResult([error |-> "No selection"], FALSE)

\* C18 witness: the host has returned, the forwarder has stopped, and an
\* openFile with a path was answered with isError true
C18_Witness ==
    \E c \in Conns :
        /\ ToolCall(c) /\ Dispatched(c)
        /\ CallName(c) = "openFile" /\ CallArgs(c).filePath.a = "str"
        /\ fwdPc = "stopped"
        /\ ToolResult(c).isError

\* the last text of c is an openFile call without a string filePath
OpenFileNoPath(c) ==
    ToolCall(c) /\ CallName(c) = "openFile" /\ CallArgs(c).filePath.a # "str"

\* C19: openFile without filePath is answered with a protocol success
\* whose tool result has isError true and a text containing "Missing
\* required parameter"; the command queue is left unchanged.
C19_OpenFileMissingPath ==
    /\ [](\A c \in Conns :
            OpenFileNoPath(c) =>
                /\ connPc[c] # "cmdsend"
                /\ Dispatched(c) =>
                      /\ Len(ResponsesTo(c)) = 1
                      /\ Reply(c).result.t = "Some" /\ Reply(c).error = None
                      /\ ToolResult(c).isError
                      /\ Contains(ToolResult(c).content[1].error,
                                  <<"Missing required parameter">>))
    /\ [][ \A c \in Conns :
             (OpenFileNoPath(c) /\ connPc'[c] # connPc[c])
                => (async_cmd' = async_cmd /\ cmd_chan' = cmd_chan /\ cmdLog' = cmdLog) ]_vars
    /\ [][ \A c \in Conns :
             (Arrives(c) /\ EntersTool(lastFrame'[c].text)
                /\ lastFrame'[c].text.params.name = "openFile"
                /\ lastFrame'[c].text.params.arguments.filePath.a # "str")
                => (async_cmd' = async_cmd /\ cmd_chan' = cmd_chan /\ cmdLog' = cmdLog) ]_vars

\* C19 witness: an openFile without arguments has been answered while the
\* command queue is open and empty
C19_Witness ==
    \E c \in Conns :
        /\ OpenFileNoPath(c) /\ Dispatched(c)
        /\ CallArgs(c) = NoArguments
        /\ ToolResult(c).isError
        /\ fwdPc = "running" /\ cmdLog = <<>>

\* the last text of c is an openFile call with a path, answered
OpenFileDone(c) ==
    /\ ToolCall(c) /\ Dispatched(c)
    /\ CallName(c) = "openFile" /\ CallArgs(c).filePath.a = "str"

\* the commands the openFile call of c has put on the command queue
Emitted(c) ==
    SelectSeq(cmdLog, LAMBDA cmd : cmd.path = CallArgs(c).filePath.s)

\* the u32 l is the integer n / is n modulo 2^32
Exact(n, l) == l.hi = n \div Limb /\ l.lo = n % Limb
Mod2p32(n, l) ==
    /\ l.lo \in 0..(Limb - 1) /\ l.hi \in 0..(Limb - 1)
    /\ (n - l.lo) % Limb = 0
    /\ (((n - l.lo) \div Limb) - l.hi) % Limb = 0

\* C20 as stated: openFile with path p and no line emits exactly one
\* command (p, none); with a line n exactly one command (p, Some(n));
\* isError is false in both.
C20_OpenFileCommand ==
    \A c \in Conns :
        (OpenFileDone(c) /\ CallArgs(c).line.a \in {"absent", "int"}) =>
            /\ Len(Emitted(c)) = 1
            /\ ~ToolResult(c).isError
            /\ IF CallArgs(c).line.a = "absent"
               THEN Emitted(c)[1].line = None
               ELSE /\ Emitted(c)[1].line.t = "Some"
                    /\ Exact(CallArgs(c).line.n, Emitted(c)[1].line.v)

\* C20 amended: an openFile with path p either fails to put its command on
\* the queue, and then emits nothing and has isError true, or emits
\* exactly one command with path p and isError false; the command's line
\* is none when the line argument is absent, no integer or an integer above
\* i64::MAX, and Some(n modulo 2^32) when it is an integer n that fits i64,
\* which is Some(n) for 0 <= n < 2^32.
C20_OpenFileCommandAmended ==
    /\ [](\A c \in Conns :
            OpenFileDone(c) =>
                IF ToolResult(c).isError
                THEN Emitted(c) = <<>> /\ fwdPc = "stopped"
                ELSE /\ Len(Emitted(c)) = 1
                     /\ IF CallArgs(c).line.a = "int"
                        THEN /\ Emitted(c)[1].line.t = "Some"
                             /\ Mod2p32(CallArgs(c).line.n, Emitted(c)[1].line.v)
                             /\ (CallArgs(c).line.q = 0 /\ CallArgs(c).line.n >= 0)
                                  => Exact(CallArgs(c).line.n, Emitted(c)[1].line.v)
                        ELSE Emitted(c)[1].line = None)
    /\ [][ \A c \in Conns :
             (connPc[c] = "cmdsend" /\ connPc'[c] # "cmdsend" /\ fwdPc = "running")
                => /\ cmdLog' = Append(cmdLog, cmdLog'[Len(cmdLog')])
                   /\ async_cmd' = Append(async_cmd, cmdLog'[Len(cmdLog')])
                   /\ cmdLog'[Len(cmdLog')].path = call[c].arguments.filePath.s ]_vars

\* C20 witness: openFile with a path and line 42 has been answered, and
\* its one command has reached the host's channel
C20_Witness ==
    \E c \in Conns :
        /\ OpenFileDone(c)
        /\ CallArgs(c).line = IntArg(42)
        /\ ~ToolResult(c).isError
        /\ Len(cmd_chan) = 1
        /\ cmd_chan[1].path = CallArgs(c).filePath.s
        /\ cmd_chan[1].line = Some([hi |-> 0, lo |-> 42])

\* C21: a message that does not decode is answered with error code
\* -32700, and a decoded envelope whose protocol tag is not "2.0" with error
\* code -32600 and the request's id.  In both cases the method is not
\* dispatched: no tool is entered, the store and the command path are left
\* alone, and the connection stays registered with its reader going on.
C21_ParseErrorInvalidRequest ==
    /\ [](\A c \in Conns :
            (GotText(c) /\ ~ValidEnvelope(LastText(c))) =>
                /\ Len(ResponsesTo(c)) = 1
                /\ Dispatched(c)
                /\ ~call[c].active
                /\ Reply(c).result = None
                /\ Reply(c).error.t = "Some"
                /\ IF LastText(c).wf
                   THEN /\ Reply(c).error.v.code = -32600
                        /\ Reply(c).id = LastText(c).id
                   ELSE Reply(c).error.v.code = -32700)
    /\ [][ \A c \in Conns :
             (Arrives(c) /\ ~ValidEnvelope(lastFrame'[c].text))
                => /\ BridgeKept
                   /\ connPc'[c] = "regread"
                   /\ call' = call
                   /\ clients' = clients /\ chanOpen' = chanOpen ]_vars

\* C21 witness: an openFile call under the protocol tag "1.0" has been
\* answered with an error that reached the socket, and the connection reads
\* again
C21_Witness ==
    \E c \in Conns :
        /\ GotText(c) /\ LastText(c).wf /\ LastText(c).jsonrpc = "1.0"
        /\ LastText(c).method = "tools/call"
        /\ LastText(c).id = NumberId(7)
        /\ Len(socket[c]) = 1
        /\ socket[c][1].body.error.t = "Some"
        /\ connPc[c] = "recv"
        /\ cmdLog = <<>>

\* the id a response to the text has to carry: the id of the decoded
\* envelope; a text that does not decode has none
RequestId(text) == IF text.wf THEN text.id ELSE None

\* C22: every response the server emits carries the protocol tag "2.0",
\* the id of the request it answers, and exactly one of a result and an
\* error.  Each message put on a connection's queue answers the last frame
\* read on that connection.
C22_ResponseShape ==
    /\ [](\A c \in Conns : \A i \in 1..Len(produced[c]) :
            produced[c][i].type = "Text" =>
                /\ produced[c][i].body.jsonrpc = "2.0"
                /\ (produced[c][i].body.result.t = "Some")
                      # (produced[c][i].body.error.t = "Some")
                /\ produced[c][i].body.result.t \in {"Some", "None"}
                /\ produced[c][i].body.error.t \in {"Some", "None"})
    /\ [](\A c \in Conns : \A i \in 1..Len(ResponsesTo(c)) :
            (GotText(c) /\ ResponsesTo(c)[i].type = "Text")
                => ResponsesTo(c)[i].body.id = RequestId(LastText(c)))
    /\ [][ \A c \in Conns :
             produced'[c] # produced[c]
                => /\ Len(produced'[c]) = Len(produced[c]) + 1
                   /\ produced'[c][Len(produced'[c])].seq = recvCount'[c]
                   /\ produced'[c][Len(produced'[c])].origin = c ]_vars

\* C22 witness: an initialize with params of no use and a string id has
\* been answered, and its error response has reached the socket with that id
C22_Witness ==
    \E c \in Conns :
        /\ GotText(c) /\ ValidEnvelope(LastText(c))
        /\ LastText(c).method = "initialize" /\ LastText(c).params = JunkParams
        /\ LastText(c).id = StringId("x")
        /\ Len(socket[c]) = 1
        /\ socket[c][1].body.id = StringId("x")
        /\ socket[c][1].body.error.t = "Some"
        /\ socket[c][1].body.result = None

(***************************************************************************)
(* Claims about getDiagnostics (SpecDiag).                                 *)
(***************************************************************************)
\* the last text of c is an answered getDiagnostics call
DiagDone(c) == ToolCall(c) /\ Dispatched(c) /\ CallName(c) = "getDiagnostics"

\* the list of diagnostics in the tool result of c
DiagResult(c) == ToolResult(c).content[1]

\* the positions of the snapshot's diagnostics that the call of c asks for
Asked(c) ==
    { i \in 1..Len(ide_state.diagnostics) :
        CallArgs(c).filePath.a = "str"
            => ide_state.diagnostics[i].file_path = CallArgs(c).filePath.s }

\* the j-th smallest element of the set of positions K
Nth(K, j) == CHOOSE i \in K : Cardinality({ k \in K : k < i }) = j - 1

\* the severity the tool has to give for a snapshot tag
SeverityOfTag(tag) ==
    IF tag = "error" THEN "Error"
    ELSE IF tag = "warning" THEN "Warning"
    ELSE IF tag = "hint" THEN "Hint"
    ELSE "Information"

\* C23: getDiagnostics without a filter returns every diagnostic of the
\* snapshot in snapshot order; with a filter f exactly those whose file
\* path equals f, in snapshot order (none when no path equals f); each
\* severity is error, warning, hint for the tags of these names and
\* information for any other tag.
C23_GetDiagnostics ==
    \A c \in Conns :
        DiagDone(c) =>
            /\ ~ToolResult(c).isError
            /\ Len(DiagResult(c)) = Cardinality(Asked(c))
            /\ \A j \in 1..Len(DiagResult(c)) :
                  LET d == ide_state.diagnostics[Nth(Asked(c), j)]
                  IN /\ DiagResult(c)[j].filePath = d.file_path
                     /\ DiagResult(c)[j].message = d.message
                     /\ DiagResult(c)[j].start.line = d.start_line
                     /\ DiagResult(c)[j].end.line = d.end_line
                     /\ DiagResult(c)[j].severity = SeverityOfTag(d.severity)

\* C23 witness: a filtered call has been answered with one diagnostic of a
\* snapshot that holds three, on two files
C23_Witness ==
    \E c \in Conns :
        /\ DiagDone(c)
        /\ CallArgs(c).filePath = StrArg(DiffFiles[2])
        /\ Len(ide_state.diagnostics) = 3
        /\ Len(DiagResult(c)) = 1
        /\ DiagResult(c)[1].start.line = 7

\* the severity the tool's description promises for a comment type
SeverityOfComment(comment_type) ==
    IF comment_type = "Issue" THEN "Error"
    ELSE IF comment_type = "Suggestion" THEN "Warning"
    ELSE "Information"

\* C24: from the host's review comment to the getDiagnostics result, a
\* comment of type Issue is returned with severity error, a Suggestion with
\* warning, a Note or a Praise with information.
C24_CommentSeverity ==
    \A c \in Conns :
        (DiagDone(c) /\ ide_state = FullSync(EmptyIdeState, app)) =>
            \A j \in 1..Len(DiagResult(c)) :
                DiagResult(c)[j].severity =
                    SeverityOfComment(ide_state.diagnostics[Nth(Asked(c), j)].comment_type)

(***************************************************************************)
(* Claims about the start of the server (SpecLive).                        *)
(***************************************************************************)
\* C25: when the server fails to start, the host goes on.  The failure
\* step touches nothing of the host; afterwards the command channel stays
\* empty and the drain of a frame ends at once, the host loop is left only
\* because the user quits, and as long as the user does not quit every
\* frame is completed.
C25_StartFailureNotFatal ==
    /\ [][ (srvPc = "init" /\ srvPc' = "failed")
             => (hostVars' = hostVars /\ storeVars' = storeVars /\ procAlive') ]_vars
    /\ [](srvPc = "failed" =>
            /\ cmd_chan = <<>> /\ async_cmd = <<>> /\ handled = <<>>
            /\ hostPc = "drain" => ENABLED HostDrainEnd
            /\ HostLeft => app.should_quit)
    /\ (srvPc = "failed" /\ ~app.should_quit) ~> (hostPc = "frame_end")

\* C25 witness: after a failed start the host has published its snapshot
\* and stands at the end of a frame it goes on from
C25_Witness ==
    /\ srvPc = "failed"
    /\ hostPc = "frame_end"
    /\ ~app.should_quit
    /\ ide_state # EmptyIdeState

(***************************************************************************)
(* Claims about the registry (SpecConnLive).                               *)
(***************************************************************************)
\* connection c has an entry in the registry
InRegistry(c) == \E i \in 1..Len(clients) : clients[i].tx = c

\* the reader of c has ended and its cleanup has not yet run
ReaderEnded(c) == connPc[c] = "remove"

\* C26: when the reader of a connection ends, this connection and only
\* this one is removed from the registry, every other entry staying as it
\* is with its id and its delivery queue; the registry holds the
\* connections that completed the handshake and registered, until their
\* reader has ended and the removal has been done.
C26_RemovedWhenReaderEnds ==
    /\ [][ \A c \in Conns :
             (ReaderEnded(c) /\ connPc'[c] = "done")
                => /\ clients' = SelectSeq(clients, LAMBDA e : e.tx # c)
                   /\ \A d \in Conns \ {c} : chan'[d] = chan[d] /\ chanOpen'[d] = chanOpen[d] ]_vars
    /\ [](\A c \in Conns :
            InRegistry(c) <=> connPc[c] \notin {"free", "add", "done"})
    /\ \A c \in Conns : ReaderEnded(c) ~> ~InRegistry(c)

(***************************************************************************)
(* Claims about the transport's keepalive (SpecConn).                      *)
(***************************************************************************)
\* the last frame of c was a transport ping
GotPing(c) == lastFrame[c].kind = "ping"

\* the messages on the way to the peer of d that answer the last frame of c
OnTheWay(c, d) ==
    SelectSeq(Pending(d) \o Delivered(d),
              LAMBDA m : m.origin = c /\ m.seq = recvCount[c])

\* C27: a transport ping with payload d makes the reader produce exactly
\* one message, a pong with payload d, for the queue of its own connection,
\* where it is enqueued once as long as the queue has its receiver.  The
\* ping does not reach the protocol layer: no text response is produced, no
\* tool call is entered, and the store and the command path are untouched.
C27_PingPong ==
    /\ [](\A c \in Conns :
            GotPing(c) =>
                /\ ResponsesTo(c) = << [type |-> "Pong", data |-> lastFrame[c].data,
                                        origin |-> c, seq |-> recvCount[c]] >>
                /\ ~call[c].active
                /\ \A d \in Conns \ {c} : OnTheWay(c, d) = <<>>
                /\ Len(OnTheWay(c, c)) <= 1
                /\ chanOpen[c] => OnTheWay(c, c) = ResponsesTo(c))
    /\ [][ \A c \in Conns :
             (recvCount'[c] # recvCount[c] /\ lastFrame'[c].kind = "ping")
                => /\ BridgeKept
                   /\ call' = call
                   /\ chan' = chan
                   /\ connPc'[c] = "regread"
                   /\ \A d \in Conns \ {c} : produced'[d] = produced[d] ]_vars

\* C27 witness: a ping with payload 2 has been answered, and the pong with
\* payload 2 has been written to the socket of the same connection
C27_Witness ==
    \E c \in Conns :
        /\ GotPing(c) /\ lastFrame[c].data = 2
        /\ socket[c] # <<>>
        /\ socket[c][Len(socket[c])].type = "Pong"
        /\ socket[c][Len(socket[c])].data = 2
        /\ socket[c][Len(socket[c])].seq = recvCount[c]

(***************************************************************************)
(* Claims about the discovery record (SpecLock).                           *)
(***************************************************************************)
\* C28: remove() on a discovery record is idempotent.  It deletes the file
\* if present (it returns Ok only with the file absent); called on an
\* absent file it returns Ok and leaves the file absent; so after one
\* successful remove() every further call, and the drop of the record,
\* succeeds and the file stays absent.
C28_RemoveIdempotent ==
    /\ \A i \in 1..Len(lockOps) :
          /\ (lockOps[i].op = "remove" /\ ~lockOps[i].before) => lockOps[i].result = "Ok"
          /\ (lockOps[i].op = "remove" /\ lockOps[i].before /\ lockOps[i].permitted)
                => lockOps[i].result = "Ok"
          /\ \A j \in 1..Len(lockOps) :
                (i < j /\ lockOps[i].op = "remove" /\ lockOps[i].result = "Ok")
                    => (~lockOps[j].before /\ lockOps[j].result = "Ok")
    /\ (\E i \in 1..Len(lockOps) : lockOps[i].op = "remove" /\ lockOps[i].result = "Ok")
          => ~lockFile

\* C28 witness: remove() deleted the file, was called again, and the
\* record was dropped afterwards
C28_Witness ==
    /\ Len(lockOps) = 3
    /\ lockOps[1].op = "remove" /\ lockOps[1].before /\ lockOps[1].result = "Ok"
    /\ lockOps[2].op = "remove" /\ ~lockOps[2].before /\ lockOps[2].result = "Ok"
    /\ lockOps[3].op = "drop"
    /\ ~lockFile

(***************************************************************************)
(* Claims about the codec (SpecCodec).                                     *)
(***************************************************************************)
\* C29: encoding and then decoding any request, response or notification
\* envelope gives back an equal envelope, for all populated optional
\* fields: id as number or as string, params, result, error with data.
C29_RoundTrip ==
    codec.stage = "decoded" => codec.back = codec.env

\* the last text of c is a well-formed tools/list envelope
ListsTools(c) ==
    GotText(c) /\ ValidEnvelope(LastText(c)) /\ LastText(c).method = "tools/list"

\* the tools listed in the response to the last frame of c
Listing(c) == Reply(c).result.v.tools

\* the listings sent so far, on any connection
Listings ==
    UNION { { produced[c][i].body.result.v.tools :
                i \in { j \in 1..Len(produced[c]) :
                          /\ produced[c][j].type = "Text"
                          /\ produced[c][j].body.result.t = "Some"
                          /\ produced[c][j].body.result.v.json = "ToolsListResult" } } :
            c \in Conns }

\* C30: tools/list is answered with exactly one response, a success whose
\* listing holds exactly five tools named getCurrentSelection,
\* getOpenEditors, getWorkspaceFolders, getDiagnostics and openFile, each with
\* a non-empty description and a schema of type object, with filePath
\* required for openFile; all the listings ever sent are the same, whatever
\* the params of the request, the store and the command path were and
\* whatever was handled before.
C30_ToolsList ==
    /\ \A c \in Conns :
          (ListsTools(c) /\ LastText(c).id # None) =>
              /\ Len(ResponsesTo(c)) = 1
              /\ Reply(c).error = None
              /\ Reply(c).result.t = "Some"
              /\ Reply(c).id = LastText(c).id
              /\ Reply(c).result.v.json = "ToolsListResult"
              /\ Len(Listing(c)) = 5
              /\ { Listing(c)[i].name : i \in 1..5 } = ToolNames
              /\ \A i \in 1..5 :
                    /\ Listing(c)[i].description.t = "Some"
                    /\ Listing(c)[i].description.v # ""
                    /\ Listing(c)[i].type = "object"
                    /\ Listing(c)[i].name = "openFile"
                          => "filePath" \in Listing(c)[i].required
    /\ Cardinality(Listings) <= 1

\* C30 witness: a connection had an openFile call succeed, then asked for
\* the listing, and the listing has reached its socket
C30_Witness ==
    \E c \in Conns :
        /\ ListsTools(c) /\ LastText(c).id # None
        /\ recvCount[c] = 2
        /\ Len(ResponsesTo(c)) = 1
        /\ Len(Listing(c)) = 5
        /\ produced[c][1].body.result.t = "Some"
        /\ produced[c][1].body.result.v.json = "ToolsCallResult"
        /\ ~produced[c][1].body.result.v.isError
        /\ Len(socket[c]) = 2
        /\ socket[c][2].body = Reply(c)

\* the commands enqueued by tool handlers and not yet handled by the host
Backlog == Len(async_cmd) + Len(cmd_chan)

\* C31: the number of commands enqueued by tool handlers and not yet handled
\* by the host loop never exceeds a fixed bound: the capacity of the command
\* queue, the one bound the command path has, and one more for the command
\* the forwarder is passing on.
C31_BoundedBacklog ==
    /\ Backlog = Len(cmdLog) - Len(handled)
    /\ Backlog <= CmdCap + 1

\* C32: the network side only reads the store.  Every step that changes a
\* field of the snapshot is a step of the host loop's sync: the host holds
\* the write guard, and no connection, queue or call of the network side
\* changes in it; a step of a protocol method or tool call leaves the
\* snapshot as it was.
C32_NetworkOnlyReads ==
    [][ ide_state' # ide_state =>
           /\ stateWriter \/ stateWriter'
           /\ hostPc \in SyncPcs \/ hostPc' \in SyncPcs
           /\ connVars' = connVars
           /\ async_cmd' = async_cmd /\ cmdLog' = cmdLog ]_vars

\* C32 witness: a read tool and openFile have both been answered, the
\* command has been handled, and the host has published a snapshot
C32_Witness ==
    /\ ide_state # EmptyIdeState
    /\ handled # <<>>
    /\ \E c \in Conns :
          /\ Len(socket[c]) = 1
          /\ socket[c][1].body.result.v.json = "ToolsCallResult"
          /\ LastText(c).params.name = "getCurrentSelection"

\* C33: the port is bound before the discovery file is written and the
\* accept loop starts only after the file is written.  Whenever the
\* discovery file exists, its name and its transport address carry the port
\* that is bound, and start returns that port or has not returned yet; when
\* start returns an error no accept loop runs.
C33_StartOrder ==
    /\ start.file # None =>
          /\ start.listening
          /\ start.file.v.name = start.port
          /\ start.file.v.transport = Some(start.port)
          /\ start.ret \in { None, Some([ok |-> start.port]) }
    /\ start.accepting => (start.file # None /\ start.listening)
    /\ (start.ret # None /\ start.ret.v \in { [err |-> "Bind"], [err |-> "LockFile"] })
          => ~start.accepting

\* the part of C33 that is about the order of the steps and the result
C33_OrderOnly ==
    /\ start.accepting =>
          /\ start.listening
          /\ start.file = Some(LockFileContent(start.port))
          /\ start.ret = Some([ok |-> start.port])
    /\ start.pc = "written" => (start.listening /\ start.ret = None)
    /\ start.pc = "failed" =>
          /\ ~start.accepting /\ ~start.listening
          /\ start.ret \in { Some([err |-> "Bind"]), Some([err |-> "LockFile"]) }

\* the handshake of connection c failed
HandshakeFailed(c) == connPc[c] = "done" /\ client_id[c] = 0

\* an accept error, a failed handshake or the end of a reader has happened
AfterFault ==
    \/ acceptErrs > 0
    \/ \E c \in Conns : connPc[c] \in {"remove", "done"}

\* connection c has been accepted and waits to be registered
Accepted(c) == connPc[c] = "add"

\* C34: after an accept error, a failed handshake or a read error on some
\* connection the accept loop is still running: the next connection can be
\* accepted, and a connection accepted then is registered.  A connection
\* whose handshake failed is never registered and has no outbound queue.
C34_FaultsAreLocal ==
    /\ [](\A c \in Conns :
            HandshakeFailed(c) => (~InRegistry(c) /\ ~chanOpen[c] /\ chan[c] = <<>>))
    /\ [](\A c \in Conns :
            (AfterFault /\ connPc[c] = "free" /\ \A d \in Conns : d < c => connPc[d] # "free")
               => ENABLED Accept(c))
    /\ \A c \in Conns : (AfterFault /\ Accepted(c)) ~> InRegistry(c)

\* C35: connection ids are freshly allocated.  No two registry entries have
\* the same id, the entry of a connection carries the id it was given, and
\* no two connections were ever given the same id, removed ones included.
C35_FreshIds ==
    /\ \A i, j \in 1..Len(clients) : i # j => clients[i].id # clients[j].id
    /\ \A i \in 1..Len(clients) : clients[i].id = client_id[clients[i].tx]
    /\ \A c, d \in Conns :
          (c # d /\ client_id[c] # 0 /\ client_id[d] # 0) => client_id[c] # client_id[d]
    /\ \A c \in Conns : client_id[c] < next_id

\* C35 witness: a connection was registered and removed, and another one was
\* registered after that
C35_Witness ==
    \E c, d \in Conns :
        /\ connPc[c] = "done" /\ client_id[c] # 0 /\ ~InRegistry(c)
        /\ InRegistry(d) /\ client_id[d] > client_id[c]
        /\ Len(clients) = 1

\* the bodies of the responses to the last frame of c
Bodies(c) == [i \in 1..Len(ResponsesTo(c)) |-> ResponsesTo(c)[i].body]

\* the last frames of c and d were the same message and both have been
\* dispatched, the command queue being open all the while
SameExchange(c, d) ==
    /\ GotText(c) /\ GotText(d)
    /\ LastText(c) = LastText(d)
    /\ Dispatched(c) /\ Dispatched(d)
    /\ fwdPc = "running"

\* C36: dispatch is per exchange.  With the snapshot as it is and the
\* command queue open, the same message gets the same response whichever
\* connection sent it and whatever that connection sent before; tools/list
\* and tools/call are answered the same with or without an earlier
\* initialize.
C36_PerExchange ==
    \A c, d \in Conns : SameExchange(c, d) => Bodies(c) = Bodies(d)

\* C36 witness: one connection sent initialize and then a tools/call, the
\* other sent the same tools/call as its first message, and both calls have
\* been answered
C36_Witness ==
    \E c, d \in Conns :
        /\ SameExchange(c, d)
        /\ recvCount[c] = 2 /\ recvCount[d] = 1
        /\ produced[c][1].body.result.v.json = "InitializeResult"
        /\ LastText(d).method = "tools/call"
        /\ Len(Bodies(c)) = 1 /\ Len(Bodies(d)) = 1
        /\ Bodies(d)[1].result.v.json = "ToolsCallResult"

\* connection c is in command_tx.send(cmd).await
AtCommandQueue(c) == connPc[c] = "cmdsend"

\* C37: a tool handler never waits on the command queue while it holds read
\* access to the store.  A handler that is at the command queue holds no
\* guard, the guards are held by handlers that are computing a result, and a
\* sync attempt made while handlers are only at the command queue or idle
\* gets the store.
C37_NoGuardAtQueue ==
    /\ \A c \in Conns : AtCommandQueue(c) => c \notin stateReaders
    /\ stateReaders = { c \in Conns : connPc[c] = "toolrun" }
    /\ (\A c \in Conns : connPc[c] # "toolrun") => (stateWriter \/ try_write)

\* C37 witness: the command queue is full, an openFile call is suspended at
\* it, and the host has taken the store for a sync
C37_Witness ==
    /\ Len(async_cmd) = CmdCap
    /\ \E c \in Conns : AtCommandQueue(c)
    /\ stateWriter
    /\ hostPc \in SyncPcs

\* the line argument of the call in the last text of c, and the line of
\* the command the call emitted
LineArg(c) == CallArgs(c).line
EmittedLine(c) == Emitted(c)[1].line

\* the openFile call of c has put its command on the queue
OpenFileSent(c) == OpenFileDone(c) /\ ~ToolResult(c).isError

\* the u32 l is the value of the integer argument arg
SameNumber(arg, l) == arg.q = 0 /\ Exact(arg.n, l)

\* C38 as stated: an integer line argument n is emitted as n modulo 2^32,
\* whatever n is; a line argument that is no integer is emitted as none.
C38_LineModulo ==
    \A c \in Conns :
        OpenFileSent(c) =>
            /\ Len(Emitted(c)) = 1
            /\ IF LineArg(c).a \in {"int", "u64"}
               THEN EmittedLine(c).t = "Some"
               ELSE EmittedLine(c) = None

\* C38 amended: an integer line argument n that fits i64 is emitted as n
\* modulo 2^32 without being rejected; the emitted line is n exactly when
\* 0 <= n < 2^32, otherwise another line number, with isError false.  A line
\* argument that is no integer, or an integer above i64::MAX, is emitted as
\* none.
C38_LineModuloAmended ==
    \A c \in Conns :
        OpenFileSent(c) =>
            /\ Len(Emitted(c)) = 1
            /\ IF LineArg(c).a = "int"
               THEN /\ EmittedLine(c).t = "Some"
                    /\ Mod2p32(LineArg(c).n, EmittedLine(c).v)
                    /\ SameNumber(LineArg(c), EmittedLine(c).v)
                          <=> (LineArg(c).q = 0 /\ LineArg(c).n >= 0)
               ELSE EmittedLine(c) = None

\* C38 witness: openFile with line -1 has been answered with isError false
\* and its command carries line 4294967295
C38_Witness ==
    \E c \in Conns :
        /\ OpenFileSent(c)
        /\ LineArg(c) = IntArg(-1)
        /\ EmittedLine(c) = Some([hi |-> Limb - 1, lo |-> Limb - 1])
        /\ Len(socket[c]) = 1

\* no diff file's path contains the command's path
NoMatch(cmd) == \A i \in 1..Len(DiffFiles) : ~Contains(DiffFiles[i], cmd.path)

\* the responses that report a successful openFile
SuccessReports ==
    { <<c, i>> \in Conns \X (1..MaxFrames) :
        /\ i <= Len(produced[c])
        /\ produced[c][i].type = "Text"
        /\ produced[c][i].body.result.t = "Some"
        /\ produced[c][i].body.result.v.json = "ToolsCallResult"
        /\ ~produced[c][i].body.result.v.isError }

\* C39: when the host loop handles an OpenFile command whose path no diff
\* file's path contains, the host model (selected file, current file index,
\* cursor, scroll) stays as it is and no sync is attempted, although the
\* call was answered with success; when files match, the one with the
\* lowest index is selected.
C39_NoMatchNoEffect ==
    /\ [][ Len(handled') > Len(handled) =>
             LET cmd == handled'[Len(handled')]
             IN IF NoMatch(cmd)
                THEN /\ app' = app
                     /\ ide_state' = ide_state /\ committed' = committed
                     /\ stateWriter' = stateWriter
                     /\ hostPc' = hostPc
                ELSE \A i \in 1..Len(DiffFiles) :
                        (/\ Contains(DiffFiles[i], cmd.path)
                         /\ \A j \in 1..(i - 1) : ~Contains(DiffFiles[j], cmd.path))
                           => /\ app'.current_file_idx = i - 1
                              /\ app'.file_list_selected = Some(i - 1) ]_vars
    /\ [](Cardinality(SuccessReports) = Len(cmdLog) /\ Len(handled) <= Len(cmdLog))

\* C39 witness: a command for a path that both files contain was handled
\* while the second file was current, then a command for a path that no
\* file contains; both calls had been answered with success
C39_Witness ==
    /\ Len(handled) = 2
    /\ handled[1].path = DiffFiles[1] /\ handled[1].line # None
    /\ NoMatch(handled[2])
    /\ app.current_file_idx = 0 /\ app.file_list_selected = Some(0)
    /\ app.cursor_line = 2 /\ app.scroll_offset = 2
    /\ Cardinality(SuccessReports) = 2

\* in snapshot st the file at position j is flagged active exactly when j
\* is the active-file index
FlagsFollowIndex(st) ==
    /\ \A j \in 1..Len(st.open_files) :
          st.open_files[j].is_active <=> (j - 1 = st.active_file_index)
    /\ Cardinality({ j \in 1..Len(st.open_files) : st.open_files[j].is_active }) <= 1
    /\ st.active_file_index >= Len(st.open_files)
          => \A j \in 1..Len(st.open_files) : ~st.open_files[j].is_active

\* C40: after every set_active_file(i), and after the two calls every
\* successful sync makes, the open file at position j is flagged active
\* exactly when j equals the active-file index: at most one file is active,
\* and none when the index is past the end of the list.
C40_ActiveFlag ==
    [][ ( \/ \E index \in 0..MaxFiles : SetActiveFile(index)
          \/ \E idx \in 0..(Len(DiffFiles) - 1) : SyncFiles(idx) )
           => FlagsFollowIndex(ide_state') ]_vars

\* C40 witness: a list of three files was stored with two of them flagged
\* active, and set_active_file was called with an index past its end
C40_Witness ==
    /\ Len(ide_state.open_files) = 3
    /\ ide_state.active_file_index = MaxFiles
    /\ \A j \in 1..3 : ~ide_state.open_files[j].is_active

====
